---- MODULE Spec2Model ----
(***************************************************************************)
(* Segment-level authenticated encryption for HLS streaming.               *)
(*                                                                         *)
(*   server/encryption.js     ChaChaEncryption, encryptHLSSegments,        *)
(*                            generateCustomM3U8          (encode path)    *)
(*   lib/encrypted-loader.ts  EncryptionState, EncryptedSegmentLoader      *)
(*                            (src/unnamed/part_000)      (decode path)    *)
(*                                                                         *)
(* Bytes are integers 0..255 and byte strings are sequences of them.       *)
(* A base64 text is a sequence of character codes (see the alphabet        *)
(* below).  A manifest text is the sequence of its lines, each line a      *)
(* record that says which kind of line it is.                              *)
(*                                                                         *)
(* The AEAD primitive itself (libsodium's ChaCha20-Poly1305-IETF) is a     *)
(* library: it is modelled as an ideal AEAD with a toy keystream and a     *)
(* toy 16-byte tag, together with the argument checks the two bindings     *)
(* (sodium-native, libsodium-wrappers) make before they run it.            *)
(***************************************************************************)
EXTENDS Integers, Sequences, FiniteSets, TLC

(***************************************************************************)
(* Bounds of the model.                                                    *)
(***************************************************************************)
MaxPlainLen == 2
NumSeeds == 2
MaxSegments == 2
MaxLoads == 2

(***************************************************************************)
(* Program constants.                                                      *)
(***************************************************************************)
KEYBYTES == 32
NPUBBYTES == 12
ABYTES == 16
HTTP_OK == 200
DefaultSegmentDuration == 10

Byte == 0..255

Pow2(n) == 2 ^ n

RECURSIVE SumSeq(_)
SumSeq(s) == IF s = <<>> THEN 0 ELSE Head(s) + SumSeq(Tail(s))

RECURSIVE BitXor(_, _)
BitXor(a, b) ==
  IF a = 0 THEN b
  ELSE IF b = 0 THEN a
  ELSE ((a + b) % 2) + 2 * BitXor(a \div 2, b \div 2)

Take(s, n) == SubSeq(s, 1, n)
Drop(s, n) == SubSeq(s, n + 1, Len(s))

\* the value of bit b (0..7) of byte x, and x with that bit flipped
BitOf(x, b) == (x \div Pow2(b)) % 2
FlipBit(x, b) == IF BitOf(x, b) = 1 THEN x - Pow2(b) ELSE x + Pow2(b)
FlipBitAt(c, i, b) == [c EXCEPT ![i] = FlipBit(c[i], b)]

(***************************************************************************)
(* Base64.  Character codes: 0..61 are A-Z a-z 0-9 (the same in both       *)
(* alphabets), 62 is '+', 63 is '/', 64 is '=', 65 is '-', 66 is '_',      *)
(* 67 stands for any character of neither alphabet.                        *)
(***************************************************************************)
CH_PLUS == 62
CH_SLASH == 63
CH_PAD == 64
CH_MINUS == 65
CH_UNDERSCORE == 66
CH_OTHER == 67

\* Buffer.prototype.toString('base64'): the standard alphabet, padded.
RECURSIVE BufferToBase64(_)
BufferToBase64(b) ==
  IF Len(b) = 0 THEN <<>>
  ELSE IF Len(b) = 1 THEN
    << b[1] \div 4, (b[1] % 4) * 16, CH_PAD, CH_PAD >>
  ELSE IF Len(b) = 2 THEN
    << b[1] \div 4, (b[1] % 4) * 16 + (b[2] \div 16), (b[2] % 16) * 4, CH_PAD >>
  ELSE
    << b[1] \div 4, (b[1] % 4) * 16 + (b[2] \div 16),
       (b[2] % 16) * 4 + (b[3] \div 64), b[3] % 64 >> \o BufferToBase64(Drop(b, 3))

\* sextets to bytes; the bits left over at the end are dropped
RECURSIVE SextetsToBytes(_)
SextetsToBytes(s) ==
  IF Len(s) <= 1 THEN <<>>
  ELSE IF Len(s) = 2 THEN << s[1] * 4 + (s[2] \div 16) >>
  ELSE IF Len(s) = 3 THEN
    << s[1] * 4 + (s[2] \div 16), (s[2] % 16) * 16 + (s[3] \div 4) >>
  ELSE
    << s[1] * 4 + (s[2] \div 16), (s[2] % 16) * 16 + (s[3] \div 4),
       (s[3] % 4) * 64 + s[4] >> \o SextetsToBytes(Drop(s, 4))

Failed(msg) == [ok |-> FALSE, err |-> msg]
Returned(v) == [ok |-> TRUE, val |-> v]

\* sodium.from_base64(text) of libsodium-wrappers, default variant
\* URLSAFE_NO_PADDING: every character must be of the URL-safe alphabet,
\* and the bits left over after the last whole byte must be zero.
UrlSafeValue(c) ==
  IF c <= 61 THEN c ELSE IF c = CH_MINUS THEN 62 ELSE IF c = CH_UNDERSCORE THEN 63 ELSE -1

SodiumFromBase64(text) ==
  LET vals == [i \in 1..Len(text) |-> UrlSafeValue(text[i])]
      left == (6 * Len(text)) % 8
  IN  IF \E i \in 1..Len(text) : vals[i] < 0 THEN Failed("invalid input")
      ELSE IF left > 4 THEN Failed("invalid input")
      ELSE IF left > 0 /\ vals[Len(text)] % Pow2(left) # 0 THEN Failed("invalid input")
      ELSE Returned(SextetsToBytes(vals))

\* window.atob(text): the standard alphabet; when the length is a multiple
\* of four, one or two trailing '=' are removed first; a length of 1 mod 4
\* and any other character fail; left-over bits are dropped.
Atob(text) ==
  LET n == Len(text)
      unpadded ==
        IF n > 0 /\ n % 4 = 0 /\ text[n] = CH_PAD
        THEN IF text[n - 1] = CH_PAD THEN Take(text, n - 2) ELSE Take(text, n - 1)
        ELSE text
  IN  IF Len(unpadded) % 4 = 1 THEN Failed("InvalidCharacterError")
      ELSE IF \E i \in 1..Len(unpadded) : unpadded[i] > 63 THEN Failed("InvalidCharacterError")
      ELSE Returned(SextetsToBytes(unpadded))

\* a decoder without the fallback: a failure of from_base64 is final
DecodeBase64NoFallback(text) == SodiumFromBase64(text)

\* try { sodium.from_base64(s) } catch { atob(s) ... }
DecodeBase64WithFallback(text) ==
  LET first == SodiumFromBase64(text)
  IN  IF first.ok THEN first ELSE Atob(text)

(***************************************************************************)
(* The AEAD primitive, crypto_aead_chacha20poly1305_ietf_{encrypt,decrypt}.*)
(* Ideal AEAD: the body is the plaintext XOR a keystream that depends on   *)
(* key and nonce, followed by an ABYTES-byte tag over key, nonce,          *)
(* associated data and body.  Every multiplier of a body byte is odd, so   *)
(* a change of one bit of the body changes every byte of the tag; the      *)
(* digests of the keys and nonces of the model are pairwise different.     *)
(***************************************************************************)
KeyDigest(k, n) == SumSeq(k) + 3 * SumSeq(n)

Keystream(digest, i) == (digest + 7 * i) % 256

StreamXor(data, k, n) ==
  LET digest == KeyDigest(k, n)
  IN  [i \in 1..Len(data) |-> BitXor(data[i], Keystream(digest, i))]

RECURSIVE WeightedSum(_, _, _)
WeightedSum(s, i, j) ==
  IF s = <<>> THEN 0
  ELSE (2 * i * j + 1) * Head(s) + WeightedSum(Tail(s), i + 1, j)

AeadTag(k, n, ad, body) ==
  LET sk == SumSeq(k)
      sn == SumSeq(n)
  IN  [j \in 1..ABYTES |->
         ( sk * j + sn * (2 * j + 1)
           + (Len(body) + 1) * (j + 2) + WeightedSum(body, 1, j)
           + Len(ad) * 5 + WeightedSum(ad, 1, j + 1) ) % 256]

AeadSeal(m, ad, n, k) ==
  LET body == StreamXor(m, k, n) IN body \o AeadTag(k, n, ad, body)

\* precondition: Len(c) >= ABYTES
AeadVerifies(c, ad, n, k) ==
  LET body == Take(c, Len(c) - ABYTES)
  IN  Drop(c, Len(c) - ABYTES) = AeadTag(k, n, ad, body)

AeadOpen(c, ad, n, k) == StreamXor(Take(c, Len(c) - ABYTES), k, n)

(***************************************************************************)
(* server/encryption.js: class ChaChaEncryption (binding: sodium-native,   *)
(* which throws on an argument of the wrong length before it runs the      *)
(* primitive, and throws "could not verify data" when the tag is wrong).   *)
(***************************************************************************)
\* ChaChaEncryption.generateKey / generateNonce: random bytes; in the model
\* the draw is one of a few byte patterns of the required length.
KeyOf(seed, len) == [i \in 1..len |-> (seed * (101 + 8 * i) + 7) % 256]
NonceOf(seed, len) == [i \in 1..len |-> (seed * (59 + 24 * i)) % 256]

Seeds == 0..(NumSeeds - 1)
generateKey == {KeyOf(s, KEYBYTES) : s \in Seeds}
generateNonce == {NonceOf(s, NPUBBYTES) : s \in Seeds}

encryptSegment(plaintext, key, nonce, additionalData) ==
  \* Buffer.alloc(plaintext.length + ABYTES) always succeeds
  IF Len(nonce) # NPUBBYTES THEN Failed("npub must be NPUBBYTES bytes")
  ELSE IF Len(key) # KEYBYTES THEN Failed("k must be KEYBYTES bytes")
  ELSE Returned(AeadSeal(plaintext, additionalData, nonce, key))

decryptSegmentSwallowing(ciphertext, key, nonce, additionalData) ==
  IF Len(ciphertext) >= ABYTES /\ Len(key) = KEYBYTES /\ Len(nonce) = NPUBBYTES
  THEN Returned(AeadOpen(ciphertext, additionalData, nonce, key))
  ELSE Returned(<<>>)

decryptSegment(ciphertext, key, nonce, additionalData) ==
  \* Buffer.alloc(ciphertext.length - ABYTES) throws on a negative size
  IF Len(ciphertext) - ABYTES < 0 THEN Failed("RangeError: size out of range")
  ELSE IF Len(nonce) # NPUBBYTES THEN Failed("npub must be NPUBBYTES bytes")
  ELSE IF Len(key) # KEYBYTES THEN Failed("k must be KEYBYTES bytes")
  ELSE IF ~AeadVerifies(ciphertext, additionalData, nonce, key)
       THEN Failed("could not verify data")
  ELSE Returned(AeadOpen(ciphertext, additionalData, nonce, key))

(***************************************************************************)
(* lib/encrypted-loader.ts: EncryptedSegmentLoader.decryptSegment          *)
(* (binding: libsodium-wrappers).  The nonce arrives as base64 text.       *)
(* Every error raised inside the try block is rethrown as                  *)
(* Error(`Decryption failed: ${error.message}`).                           *)
(***************************************************************************)
DecryptionFailed(msg) == Failed("Decryption failed: " \o msg)

loaderDecryptSegmentOpaque(sodiumReady, encryptedData, key, nonce) ==
  LET nonceBuffer == DecodeBase64WithFallback(nonce)
  IN  IF ~sodiumReady THEN Failed("Sodium not initialized")
      ELSE IF nonceBuffer.ok /\ Len(key) = KEYBYTES /\ Len(nonceBuffer.val) = NPUBBYTES
              /\ Len(encryptedData) >= ABYTES
              /\ AeadVerifies(encryptedData, <<>>, nonceBuffer.val, key)
           THEN Returned(AeadOpen(encryptedData, <<>>, nonceBuffer.val, key))
      ELSE DecryptionFailed("Unknown error")

loaderDecryptSegment(sodiumReady, encryptedData, key, nonce) ==
  LET nonceBuffer == DecodeBase64WithFallback(nonce)
  IN  IF ~sodiumReady THEN Failed("Sodium not initialized")
      ELSE IF ~nonceBuffer.ok THEN DecryptionFailed(nonceBuffer.err)
      ELSE IF Len(key) # KEYBYTES THEN DecryptionFailed("Invalid key size")
      ELSE IF Len(nonceBuffer.val) # NPUBBYTES THEN DecryptionFailed("Invalid nonce size")
      ELSE IF Len(encryptedData) < ABYTES THEN DecryptionFailed("ciphertext is too short")
      ELSE IF ~AeadVerifies(encryptedData, <<>>, nonceBuffer.val, key)
           THEN DecryptionFailed("ciphertext cannot be decrypted using that key")
      ELSE Returned(AeadOpen(encryptedData, <<>>, nonceBuffer.val, key))

(***************************************************************************)
(* File names, paths and manifest text.                                    *)
(* A file name is a record (name, num, ext): segment0003.ts is             *)
(* ("segment", 3, ".ts").  A path or URL is the sequence of its            *)
(* '/'-separated components.  A manifest text is the sequence of its       *)
(* lines; a line is a tag ('#...'), the key directive, a nonce directive,  *)
(* a segment reference (neither blank nor starting with '#') or blank.     *)
(***************************************************************************)
File(name, num, ext) == [name |-> name, num |-> num, ext |-> ext]
PlaylistFile == File("playlist", 0, ".m3u8")
SegmentTs(i) == File("segment", i, ".ts")

\* String.prototype.replace('.ts', '.enc') on a name that ends in '.ts'
ReplaceTsByEnc(f) == IF f.ext = ".ts" THEN [f EXCEPT !.ext = ".enc"] ELSE f

\* url.split('/').pop()
Basename(path) == path[Len(path)]

Line(kind, tag, num, b64, path) ==
  [kind |-> kind, tag |-> tag, num |-> num, b64 |-> b64, path |-> path]
Tag(tag, num) == Line("tag", tag, num, <<>>, <<>>)
Blank == Line("blank", "", 0, <<>>, <<>>)
\* #EXT-X-CUSTOM-KEY:METHOD=CHACHA20-POLY1305,URI="data:text/plain;base64,<b64>"
KeyDirective(b64) == Line("key", "", 0, b64, <<>>)
\* #EXT-X-SEGMENT-NONCE:<b64>
NonceDirective(b64) == Line("nonce", "", 0, b64, <<>>)
SegmentRef(path) == Line("ref", "", 0, <<>>, path)

RECURSIVE Concat(_)
Concat(ss) == IF ss = <<>> THEN <<>> ELSE Head(ss) \o Concat(Tail(ss))

(***************************************************************************)
(* server/encryption.js: encryptHLSSegments and generateCustomM3U8.        *)
(***************************************************************************)
\* the bytes of the plaintext segment file segment<i>.ts
SegmentData(f) == << f.num % 256, 165 >>

\* listing is what fs.readdir returned, in the order it returned it;
\* nonceDraws[i] is the generateNonce() draw of the i-th loop iteration
encryptHLSSegments(listing, masterKey, nonceDraws) ==
  LET segments == SelectSeq(listing, LAMBDA f : f.ext = ".ts")
  IN  [i \in 1..Len(segments) |->
         [original |-> segments[i],
          encrypted |-> ReplaceTsByEnc(segments[i]),
          nonce |-> BufferToBase64(nonceDraws[i]),
          size |-> Len(SegmentData(segments[i])),
          encryptedSize |-> Len(SegmentData(segments[i])) + ABYTES]]

\* the file written for the i-th segment
encryptedFile(listing, masterKey, nonceDraws, i) ==
  LET segments == SelectSeq(listing, LAMBDA f : f.ext = ".ts")
  IN  encryptSegment(SegmentData(segments[i]), masterKey, nonceDraws[i], <<>>).val

generateCustomM3U8NonceAfterSegment(encryptedSegments, masterKey, segmentDuration) ==
  << Tag("#EXTM3U", 0), Tag("#EXT-X-VERSION", 3),
     Tag("#EXT-X-TARGETDURATION", segmentDuration),
     Tag("#EXT-X-MEDIA-SEQUENCE", 0), Tag("#EXT-X-PLAYLIST-TYPE:VOD", 0), Blank,
     KeyDirective(BufferToBase64(masterKey)), Blank >>
  \o Concat([i \in 1..Len(encryptedSegments) |->
        << Tag("#EXTINF", segmentDuration),
           SegmentRef(<< encryptedSegments[i].encrypted >>),
           NonceDirective(encryptedSegments[i].nonce) >>])
  \o << Tag("#EXT-X-ENDLIST", 0) >>

generateCustomM3U8(encryptedSegments, masterKey, segmentDuration) ==
  << Tag("#EXTM3U", 0), Tag("#EXT-X-VERSION", 3),
     Tag("#EXT-X-TARGETDURATION", segmentDuration),
     Tag("#EXT-X-MEDIA-SEQUENCE", 0), Tag("#EXT-X-PLAYLIST-TYPE:VOD", 0), Blank,
     KeyDirective(BufferToBase64(masterKey)), Blank >>
  \o Concat([i \in 1..Len(encryptedSegments) |->
        << Tag("#EXTINF", segmentDuration),
           NonceDirective(encryptedSegments[i].nonce),
           SegmentRef(<< encryptedSegments[i].encrypted >>) >>])
  \o << Tag("#EXT-X-ENDLIST", 0) >>

(***************************************************************************)
(* lib/encrypted-loader.ts: the manifest side of EncryptedSegmentLoader.   *)
(***************************************************************************)
\* the lines the regular expression of parseEncryptionKey matches: a key
\* directive whose URI carries a non-empty payload
KeyMatches(m3u8Content) ==
  {i \in 1..Len(m3u8Content) :
     m3u8Content[i].kind = "key" /\ m3u8Content[i].b64 # <<>>}

Min(S) == CHOOSE x \in S : \A y \in S : x <= y
Max(S) == CHOOSE x \in S : \A y \in S : x >= y

parseEncryptionKey(sodiumReady, m3u8Content) ==
  IF KeyMatches(m3u8Content) # {} /\ sodiumReady
  THEN LET keyString == m3u8Content[Min(KeyMatches(m3u8Content))].b64
           decoded == DecodeBase64WithFallback(keyString)
       IN  IF decoded.ok THEN decoded ELSE Failed("Invalid base64 key format")
  ELSE Failed("Encryption key not found in playlist")

\* the index of the first segment reference after line i, or 0
NextSegmentLine(lines, i) ==
  LET after == {j \in (i + 1)..Len(lines) : lines[j].kind = "ref"}
  IN  IF after = {} THEN 0 ELSE Min(after)

\* Map<string, string>: a function from the reference line to the nonce text;
\* a later set() of the same line replaces the earlier one
parseSegmentNonces(m3u8Content) ==
  LET lines == m3u8Content
      directives == {i \in 1..Len(lines) :
                       lines[i].kind = "nonce" /\ NextSegmentLine(lines, i) # 0}
      keyOf(i) == lines[NextSegmentLine(lines, i)].path
  IN  [k \in {keyOf(i) : i \in directives} |->
         lines[Max({i \in directives : keyOf(i) = k})].b64]

BlobUrl == << File("blob:http:", 0, ""), File("", 0, ""), File("localhost", 0, ""),
              File("uuid", 0, "") >>
ServerOutputUrl == << File("http:", 0, ""), File("", 0, ""), File("localhost", 0, ""),
                      File("output", 0, ""), File("my-encrypted-video", 0, "") >>

IsBlobUrl(url) == Len(url) > 0 /\ url[1].name = "blob:http:"
\* line.startsWith('http') / line.startsWith('/')
StartsWithHttp(path) == Len(path) > 0 /\ path[1].name = "http:"
StartsWithSlash(path) == Len(path) > 1 /\ path[1] = File("", 0, "")
EndsWithEnc(path) == Len(path) > 0 /\ Basename(path).ext = ".enc"

\* a cleaning that leaves the nonce directives in the text
cleanM3U8ForHlsKeepingNonces(m3u8Content, baseUrl) ==
  LET kept == SelectSeq(m3u8Content, LAMBDA l : l.kind # "blank" /\ l.kind # "key")
  IN  [i \in 1..Len(kept) |->
         IF /\ kept[i].kind = "ref" /\ EndsWithEnc(kept[i].path)
            /\ IsBlobUrl(baseUrl)
            /\ ~StartsWithHttp(kept[i].path) /\ ~StartsWithSlash(kept[i].path)
         THEN SegmentRef(ServerOutputUrl \o kept[i].path)
         ELSE kept[i]]

\* a cleaning that rewrites the relative references whatever the base URL is
cleanM3U8ForHlsAlwaysRewriting(m3u8Content, baseUrl) ==
  LET kept == SelectSeq(m3u8Content,
                LAMBDA l : l.kind # "blank" /\ l.kind # "key" /\ l.kind # "nonce")
  IN  [i \in 1..Len(kept) |->
         IF /\ kept[i].kind = "ref" /\ EndsWithEnc(kept[i].path)
            /\ ~StartsWithHttp(kept[i].path) /\ ~StartsWithSlash(kept[i].path)
         THEN SegmentRef(ServerOutputUrl \o kept[i].path)
         ELSE kept[i]]

cleanM3U8ForHls(m3u8Content, baseUrl) ==
  LET kept == SelectSeq(m3u8Content,
                LAMBDA l : l.kind # "blank" /\ l.kind # "key" /\ l.kind # "nonce")
  IN  [i \in 1..Len(kept) |->
         IF /\ kept[i].kind = "ref" /\ EndsWithEnc(kept[i].path)
            /\ IsBlobUrl(baseUrl)
            /\ ~StartsWithHttp(kept[i].path) /\ ~StartsWithSlash(kept[i].path)
         THEN SegmentRef(ServerOutputUrl \o kept[i].path)
         ELSE kept[i]]

\* the try block of the text branch of load: key, nonce table, cleaned text
parseManifest(sodiumReady, textData, url) ==
  LET key == parseEncryptionKey(sodiumReady, textData)
  IN  IF ~key.ok THEN key
      ELSE Returned([key |-> key.val,
                     segmentNonces |-> parseSegmentNonces(textData),
                     cleanedM3U8 |-> cleanM3U8ForHls(textData, url)])

(***************************************************************************)
(* lib/encrypted-loader.ts: EncryptedSegmentLoader.load, the handlers of   *)
(* the XMLHttpRequest.  A handler runs to completion; it gets the shared   *)
(* state (sodium, decryptionKey, segmentNonces) and yields the callback    *)
(* it makes and the shared state it leaves.                                *)
(***************************************************************************)
Null == << -1 >>
EmptyMap == [k \in {} |-> <<>>]

OnSuccess(text, bytes) ==
  [cb |-> "onSuccess", text |-> text, bytes |-> bytes, code |-> 0, message |-> ""]
OnError(code, message) ==
  [cb |-> "onError", text |-> <<>>, bytes |-> <<>>, code |-> code, message |-> message]

Outcome(event, key, nonces) ==
  [event |-> event, decryptionKey |-> key, segmentNonces |-> nonces]

\* a text branch that hands on the cleaned text when no key was found
loadTextBranchCleaning(sodiumReady, url, textData, key, nonces) ==
  LET parsed == parseManifest(sodiumReady, textData, url)
  IN  IF parsed.ok
      THEN Outcome(OnSuccess(parsed.val.cleanedM3U8, <<>>),
                   parsed.val.key, parsed.val.segmentNonces)
      ELSE Outcome(OnSuccess(cleanM3U8ForHls(textData, url), <<>>), key, nonces)

\* a text branch that adds the parsed entries to the table it finds
loadTextBranchMerging(sodiumReady, url, textData, key, nonces) ==
  LET parsed == parseManifest(sodiumReady, textData, url)
      new == IF parsed.ok THEN parsed.val.segmentNonces ELSE nonces
  IN  IF parsed.ok
      THEN Outcome(OnSuccess(parsed.val.cleanedM3U8, <<>>),
                   parsed.val.key,
                   [k \in DOMAIN nonces \cup DOMAIN new |->
                      IF k \in DOMAIN new THEN new[k] ELSE nonces[k]])
      ELSE Outcome(OnSuccess(textData, <<>>), key, nonces)

\* a text branch that stores the nonce table of a manifest without a key
loadTextBranchTableWithoutKey(sodiumReady, url, textData, key, nonces) ==
  LET parsed == parseManifest(sodiumReady, textData, url)
  IN  IF parsed.ok
      THEN Outcome(OnSuccess(parsed.val.cleanedM3U8, <<>>),
                   parsed.val.key, parsed.val.segmentNonces)
      ELSE Outcome(OnSuccess(textData, <<>>), key, parseSegmentNonces(textData))

\* xhr.responseType === 'text'
loadTextBranch(sodiumReady, url, textData, key, nonces) ==
  LET parsed == parseManifest(sodiumReady, textData, url)
  IN  IF parsed.ok
      THEN Outcome(OnSuccess(parsed.val.cleanedM3U8, <<>>),
                   parsed.val.key, parsed.val.segmentNonces)
      \* catch (keyError): whatever was thrown, pass the text through
      ELSE Outcome(OnSuccess(textData, <<>>), key, nonces)

\* a segment branch that looks at the key before it looks up the nonce
loadSegmentBranchKeyFirst(sodiumReady, url, response, key, nonces) ==
  LET filename == << Basename(url) >>
      found == filename \in DOMAIN nonces /\ nonces[filename] # <<>>
  IN  IF key = Null
      THEN Outcome(OnError(HTTP_OK, "Decryption key not available"), key, nonces)
      ELSE IF ~found
      THEN Outcome(OnError(HTTP_OK, "Nonce not found for segment"), key, nonces)
      ELSE LET decryptedData == loaderDecryptSegment(sodiumReady, response, key, nonces[filename])
           IN  IF decryptedData.ok
               THEN Outcome(OnSuccess(<<>>, decryptedData.val), key, nonces)
               ELSE Outcome(OnError(HTTP_OK, decryptedData.err), key, nonces)

\* a segment branch that takes some nonce of the table, not the one stored
\* under the file name
loadSegmentBranchAnyNonce(sodiumReady, url, response, key, nonces) ==
  LET filename == << Basename(url) >>
      found == filename \in DOMAIN nonces /\ nonces[filename] # <<>>
      other == CHOOSE k \in DOMAIN nonces : \A j \in DOMAIN nonces : k[1].num <= j[1].num
  IN  IF ~found
      THEN Outcome(OnError(HTTP_OK, "Nonce not found for segment"), key, nonces)
      ELSE IF key = Null
      THEN Outcome(OnError(HTTP_OK, "Decryption key not available"), key, nonces)
      ELSE LET decryptedData == loaderDecryptSegment(sodiumReady, response, key, nonces[other])
           IN  IF decryptedData.ok
               THEN Outcome(OnSuccess(<<>>, decryptedData.val), key, nonces)
               ELSE Outcome(OnError(HTTP_OK, decryptedData.err), key, nonces)

\* a segment branch that drops the entry of a segment it decrypted
loadSegmentBranchConsuming(sodiumReady, url, response, key, nonces) ==
  LET filename == << Basename(url) >>
      found == filename \in DOMAIN nonces /\ nonces[filename] # <<>>
  IN  IF ~found
      THEN Outcome(OnError(HTTP_OK, "Nonce not found for segment"), key, nonces)
      ELSE IF key = Null
      THEN Outcome(OnError(HTTP_OK, "Decryption key not available"), key, nonces)
      ELSE LET decryptedData == loaderDecryptSegment(sodiumReady, response, key, nonces[filename])
           IN  IF decryptedData.ok
               THEN Outcome(OnSuccess(<<>>, decryptedData.val), key,
                            [k \in DOMAIN nonces \ {filename} |-> nonces[k]])
               ELSE Outcome(OnError(HTTP_OK, decryptedData.err), key, nonces)

\* url.endsWith('.enc'); every throw is caught by the outer catch, which
\* calls onError({code: xhr.status, text: error.message})
loadSegmentBranch(sodiumReady, url, response, key, nonces) ==
  LET filename == << Basename(url) >>
      found == filename \in DOMAIN nonces /\ nonces[filename] # <<>>
  IN  IF ~found
      THEN Outcome(OnError(HTTP_OK, "Nonce not found for segment"), key, nonces)
      ELSE IF key = Null
      THEN Outcome(OnError(HTTP_OK, "Decryption key not available"), key, nonces)
      ELSE LET decryptedData == loaderDecryptSegment(sodiumReady, response, key, nonces[filename])
           IN  IF decryptedData.ok
               THEN Outcome(OnSuccess(<<>>, decryptedData.val), key, nonces)
               ELSE Outcome(OnError(HTTP_OK, decryptedData.err), key, nonces)

NoResponse == [status |-> 0, text |-> <<>>, bytes |-> <<>>]
TextResponse(status, text) == [status |-> status, text |-> text, bytes |-> <<>>]
BinaryResponse(status, bytes) == [status |-> status, text |-> <<>>, bytes |-> bytes]

\* xhr.onload
xhrOnload(sodiumReady, url, responseType, response, key, nonces) ==
  IF response.status = HTTP_OK
  THEN IF responseType = "text"
       THEN loadTextBranch(sodiumReady, url, response.text, key, nonces)
       ELSE IF EndsWithEnc(url)
       THEN loadSegmentBranch(sodiumReady, url, response.bytes, key, nonces)
       ELSE Outcome(OnSuccess(<<>>, response.bytes), key, nonces)
  ELSE Outcome(OnError(response.status, "statusText"), key, nonces)

\* an onerror handler that reports the failure as a response status
xhrOnerrorAsStatus(key, nonces) ==
  Outcome(OnError(HTTP_OK + HTTP_OK + 4, "statusText"), key, nonces)

\* xhr.onerror
xhrOnerror(key, nonces) == Outcome(OnError(0, "Network Error"), key, nonces)

(***************************************************************************)
(* The player hook (useEncryptedPlayer).  Of PlayerState the fields the    *)
(* handlers below write are kept; hlsRef is the hook's reference to the    *)
(* engine, pc its position in loadEncryptedPlaylist.                       *)
(***************************************************************************)
NoError == ""
PlayerState ==
  [isLoaded |-> FALSE, error |-> NoError, loadingStatus |-> "idle",
   hlsRef |-> FALSE, pc |-> "ready"]

\* the engine, as far as the hook and the loader can tell: what it wants
\* to fetch next, the last failure a loader reported to it, the last
\* ERROR event it raised, and who made it fetch again after a failure
ErrorTypes == {"networkError", "mediaError", "otherError"}
NoReport == [type |-> "", fatal |-> FALSE]
ErrorData == [type : ErrorTypes, fatal : BOOLEAN, details : {"", "details"}]
\* earlier is the engine of the previous load request: initializePlayer
\* makes a new engine without destroying the one hlsRef refers to, so the
\* earlier one goes on with its handlers registered
NoEngine == [want |-> "none", segments |-> <<>>, next |-> 1, inflight |-> 0]
NoHls ==
  [want |-> "none", segments |-> <<>>, next |-> 1, inflight |-> 0,
   failedUrl |-> <<>>, failure |-> "", reported |-> NoReport, resumedBy |-> "",
   earlier |-> NoEngine]

\* hls.on(Events.MANIFEST_LOADED, ...)
onManifestLoaded(state) ==
  [state EXCEPT !.loadingStatus = "loaded", !.isLoaded = TRUE]

\* hls.on(Events.ERROR, ...): the new hook state and the engine method
\* the handler calls
onHlsError(state, data) ==
  IF data.fatal
  THEN IF data.type = "networkError"
       THEN [state |-> state, call |-> "startLoad"]
       ELSE IF data.type = "mediaError"
       THEN [state |-> state, call |-> "recoverMediaError"]
       ELSE [state |-> [state EXCEPT
                          !.error = IF data.details # "" THEN data.details
                                    ELSE "Unknown HLS error",
                          !.loadingStatus = "error"],
             call |-> "none"]
  ELSE [state |-> state, call |-> "none"]

\* the video element's 'error' event
handleError(state) ==
  [state EXCEPT !.error = "Video playback error", !.loadingStatus = "error"]

\* loadEncryptedPlaylist up to its await
loadEncryptedPlaylistBegin(state) ==
  [state EXCEPT !.loadingStatus = "loading", !.error = NoError, !.pc = "initializing"]

\* initializePlayer after EncryptedSegmentLoader.initialize() resolved;
\* support is what the browser offers: "hls" (Hls.isSupported()),
\* "native" (canPlayType) or "none"
initializePlayer(state, support) ==
  IF support = "hls" THEN [state EXCEPT !.hlsRef = TRUE, !.pc = "ready"]
  ELSE IF support = "native" THEN [state EXCEPT !.pc = "ready"]
  ELSE [state EXCEPT !.error = "HLS is not supported in this browser",
                     !.loadingStatus = "error", !.pc = "ready"]

\* initializePlayer when EncryptedSegmentLoader.initialize() rejected
initializePlayerFailed(state) ==
  [state EXCEPT !.error = "Unknown error", !.loadingStatus = "error", !.pc = "ready"]

\* destroy() of the hook
playerDestroy(state) ==
  [state EXCEPT !.hlsRef = FALSE, !.isLoaded = FALSE, !.loadingStatus = "idle"]


(***************************************************************************)
(* The spec's error taxonomy, read off the errors the code raises.         *)
(***************************************************************************)
IsIntegrityError(e) ==
  e \in { "could not verify data",
          "Decryption failed: ciphertext cannot be decrypted using that key",
          "Decryption failed: ciphertext is too short" }

IsMalformedKeyMaterial(e) ==
  e \in { "npub must be NPUBBYTES bytes", "k must be KEYBYTES bytes",
          "Decryption failed: Invalid key size",
          "Decryption failed: Invalid nonce size" }

(***************************************************************************)
(* State.                                                                  *)
(*   vec, enc, dec   one call of encryptSegment on a drawn test vector     *)
(*                   and one call of a decryptSegment on its output        *)
(*   listing, asset, playlist, parsed                                      *)
(*                   one run of the encode path on a directory listing,    *)
(*                   and one parse of the manifest it wrote (or of a       *)
(*                   partial copy of it)                                   *)
(*   sodium, decryptionKey, segmentNonces                                  *)
(*                   the module-wide EncryptionState of the loader         *)
(*   loaders         the loader instances the engine holds: where each     *)
(*                   is in its load, its request, the response it got      *)
(*                   and the callbacks it made                             *)
(***************************************************************************)
VARIABLES vec, enc, dec, listing, asset, playlist, parsed,
          sodium, decryptionKey, segmentNonces, loaders, player, hls

cipherVars == <<vec, enc, dec>>
codecVars == <<listing, asset, playlist, parsed>>
loaderVars == <<sodium, decryptionKey, segmentNonces, loaders>>
playerVars == <<player, hls>>
vars == <<vec, enc, dec, listing, asset, playlist, parsed,
          sodium, decryptionKey, segmentNonces, loaders, player, hls>>

PlainBytes == {0, 165}
Plaintexts == UNION {[1..n -> PlainBytes] : n \in 0..MaxPlainLen}
KeyLengths == {KEYBYTES - 1, KEYBYTES, KEYBYTES + 1}
NonceLengths == {NPUBBYTES - 1, NPUBBYTES, NPUBBYTES + 1}
TestKeys == {KeyOf(s, l) : s \in Seeds, l \in KeyLengths}
TestNonces == {NonceOf(s, l) : s \in Seeds, l \in NonceLengths}
AssociatedData == {<<>>, <<9>>}

NotCalled == [called |-> FALSE]

\* the ciphertexts handed to decrypt: c itself, c with one bit flipped,
\* and every proper prefix of c
BitFlips(c) == {FlipBitAt(c, i, b) : i \in 1..Len(c), b \in 0..7}
Truncations(c) == {Take(c, n) : n \in 0..(Len(c) - 1)}

LoaderIds == 1..MaxLoads

\* abortCalled records that abort() was called on the instance while its
\* request was in flight (abort() itself writes nothing)
NewLoader ==
  [pc |-> "new", url |-> <<>>, responseType |-> "", response |-> NoResponse,
   events |-> <<>>, abortCalled |-> FALSE]

\* class EncryptionState: decryptionKey = null, sodium = null, empty Map
LoaderInit ==
  /\ sodium = FALSE
  /\ decryptionKey = Null
  /\ segmentNonces = EmptyMap
  /\ loaders = [l \in LoaderIds |-> NewLoader]

\* useState<PlayerState>(...), useRef<Hls | null>(null); no engine yet
PlayerIdle ==
  /\ player = PlayerState
  /\ hls = NoHls

CodecIdle ==
  /\ listing = <<>>
  /\ asset = NotCalled
  /\ playlist = NotCalled
  /\ parsed = NotCalled

CipherInit ==
  /\ CodecIdle
  /\ LoaderInit
  /\ PlayerIdle
  /\ vec \in [plaintext : Plaintexts, key : TestKeys, nonce : TestNonces,
               additionalData : AssociatedData]
  /\ enc = NotCalled
  /\ dec = NotCalled

Encrypt ==
  /\ ~enc.called
  /\ enc' = [called |-> TRUE,
             out |-> encryptSegment(vec.plaintext, vec.key, vec.nonce, vec.additionalData)]
  /\ UNCHANGED <<vec, dec>>
  /\ UNCHANGED codecVars
  /\ UNCHANGED loaderVars
  /\ UNCHANGED playerVars

Decrypted(side, c, k, n) ==
  [called |-> TRUE, side |-> side, ciphertext |-> c, key |-> k, nonce |-> n,
   out |-> IF side = "server"
           THEN decryptSegment(c, k, n, vec.additionalData)
           ELSE loaderDecryptSegment(TRUE, c, k, BufferToBase64(n))]

\* decrypt what encrypt returned, or a damaged copy, with the same key and nonce
DecryptSameKey ==
  /\ enc.called /\ enc.out.ok /\ ~dec.called
  /\ \E side \in {"server", "loader"} :
     \E c \in {enc.out.val} \cup BitFlips(enc.out.val) \cup Truncations(enc.out.val) :
        dec' = Decrypted(side, c, vec.key, vec.nonce)
  /\ UNCHANGED <<vec, enc>>
  /\ UNCHANGED codecVars
  /\ UNCHANGED loaderVars
  /\ UNCHANGED playerVars

\* decrypt with any key and nonce of the test set, of any length
DecryptOtherKey ==
  /\ enc.called /\ enc.out.ok /\ ~dec.called
  /\ \E side \in {"server", "loader"} :
     \E c \in {enc.out.val, Take(enc.out.val, ABYTES - 1)} :
     \E k \in TestKeys : \E n \in TestNonces :
        dec' = Decrypted(side, c, k, n)
  /\ UNCHANGED <<vec, enc>>
  /\ UNCHANGED codecVars
  /\ UNCHANGED loaderVars
  /\ UNCHANGED playerVars

CipherNext == Encrypt \/ DecryptSameKey \/ DecryptOtherKey

SpecCipher == CipherInit /\ [][CipherNext]_vars

(***************************************************************************)
(* The encode path and the manifest parser (SpecCodec).                    *)
(***************************************************************************)
CipherIdle ==
  /\ vec = [plaintext |-> <<>>, key |-> <<>>, nonce |-> <<>>, additionalData |-> <<>>]
  /\ enc = NotCalled
  /\ dec = NotCalled

Orderings(S) ==
  {f \in [1..Cardinality(S) -> S] : \A i, j \in DOMAIN f : f[i] = f[j] => i = j}

\* the output directory after the transcoder ran: its playlist and n segments
DirectoryFiles(n) == {PlaylistFile} \cup {SegmentTs(i) : i \in 0..(n - 1)}
Listings == UNION {Orderings(DirectoryFiles(n)) : n \in 0..MaxSegments}

PlaylistUrl == << File("http:", 0, ""), File("", 0, ""), File("localhost", 0, ""),
                  File("output", 0, ""), File("my-encrypted-video", 0, ""),
                  File("encrypted-playlist", 0, ".m3u8") >>

CodecInit ==
  /\ CipherIdle
  /\ LoaderInit
  /\ PlayerIdle
  /\ listing \in Listings
  /\ asset = NotCalled
  /\ playlist = NotCalled
  /\ parsed = NotCalled

\* processAndEncryptVideo, step 2
RunEncryptHLSSegments ==
  /\ ~asset.called
  /\ \E masterKey \in generateKey :
     \E nonceDraws \in [1..Len(SelectSeq(listing, LAMBDA f : f.ext = ".ts")) -> generateNonce] :
        asset' = [called |-> TRUE, masterKey |-> masterKey,
                  encryptedSegments |-> encryptHLSSegments(listing, masterKey, nonceDraws),
                  files |-> [i \in DOMAIN nonceDraws |->
                               encryptedFile(listing, masterKey, nonceDraws, i)]]
  /\ UNCHANGED <<listing, playlist, parsed>>
  /\ UNCHANGED cipherVars
  /\ UNCHANGED loaderVars
  /\ UNCHANGED playerVars

\* processAndEncryptVideo, step 3
RunGenerateCustomM3U8 ==
  /\ asset.called /\ ~playlist.called
  /\ playlist' = [called |-> TRUE, partial |-> FALSE,
                  text |-> generateCustomM3U8(asset.encryptedSegments, asset.masterKey,
                                              DefaultSegmentDuration)]
  /\ UNCHANGED <<listing, asset, parsed>>
  /\ UNCHANGED cipherVars
  /\ UNCHANGED loaderVars
  /\ UNCHANGED playerVars

\* the manifest reaches the parser cut short: only its first n lines
TruncatePlaylist ==
  /\ playlist.called /\ ~playlist.partial /\ ~parsed.called
  /\ \E n \in 1..(Len(playlist.text) - 1) :
        playlist' = [playlist EXCEPT !.partial = TRUE, !.text = Take(playlist.text, n)]
  /\ UNCHANGED <<listing, asset, parsed>>
  /\ UNCHANGED cipherVars
  /\ UNCHANGED loaderVars
  /\ UNCHANGED playerVars

\* the text branch of load parses the manifest (sodium is initialised)
ParsePlaylist ==
  /\ playlist.called /\ ~parsed.called
  /\ parsed' = [called |-> TRUE, out |-> parseManifest(TRUE, playlist.text, PlaylistUrl)]
  /\ UNCHANGED <<listing, asset, playlist>>
  /\ UNCHANGED cipherVars
  /\ UNCHANGED loaderVars
  /\ UNCHANGED playerVars

CodecNext ==
  RunEncryptHLSSegments \/ RunGenerateCustomM3U8 \/ TruncatePlaylist \/ ParsePlaylist

SpecCodec == CodecInit /\ [][CodecNext]_vars

(***************************************************************************)
(* The loader at work (Spec): the engine creates loader instances and      *)
(* calls load on them; the network answers each request with a status and  *)
(* a body, or fails it; handlers of different instances interleave.        *)
(***************************************************************************)
\* what the server holds: asset a is the encode path's output for the key
\* and nonce draws of a
AssetIds == {0, 1}
AssetListing == [i \in 1..MaxSegments |-> SegmentTs(i - 1)]
AssetKey(a) == KeyOf(a % NumSeeds, KEYBYTES)
AssetNonceDraws(a) == [i \in 1..MaxSegments |-> NonceOf((a + i) % NumSeeds, NPUBBYTES)]
AssetSegments(a) == encryptHLSSegments(AssetListing, AssetKey(a), AssetNonceDraws(a))
AssetManifest(a) ==
  generateCustomM3U8(AssetSegments(a), AssetKey(a), DefaultSegmentDuration)
AssetFile(a, i) == encryptedFile(AssetListing, AssetKey(a), AssetNonceDraws(a), i)

\* an ordinary manifest, without the key and nonce directives
PlainManifest ==
  << Tag("#EXTM3U", 0), Tag("#EXT-X-VERSION", 3), Blank,
     Tag("#EXTINF", DefaultSegmentDuration), SegmentRef(<< SegmentTs(0) >>),
     Tag("#EXT-X-ENDLIST", 0) >>

\* the manifest of asset 0 with a key payload no decoder accepts
BadKeyManifest ==
  [i \in DOMAIN AssetManifest(0) |->
     IF AssetManifest(0)[i].kind = "key"
     THEN KeyDirective(<< CH_OTHER, 0, 0, 0 >>)
     ELSE AssetManifest(0)[i]]

\* the manifest of asset 0 cut off after its last nonce directive
CutAfterLastNonce(text) ==
  Take(text, Max({i \in DOMAIN text : text[i].kind = "nonce"}))
TruncatedManifest == CutAfterLastNonce(AssetManifest(0))

ManifestBodies ==
  {AssetManifest(a) : a \in AssetIds}
    \cup {PlainManifest, BadKeyManifest, TruncatedManifest}

SegmentUrl(f) == ServerOutputUrl \o << f >>
SegmentEnc(i) == File("segment", i, ".enc")
InitSegment == File("init", 0, ".mp4")

\* the segments of the asset, one segment no manifest lists, one plain file
SegmentUrls ==
  {SegmentUrl(SegmentEnc(i)) : i \in 0..MaxSegments} \cup {SegmentUrl(InitSegment)}
Urls == {PlaylistUrl} \cup SegmentUrls

SomeBytes == << 1, 2, 3 >>

AssetFiles == [a \in AssetIds |-> [i \in 1..MaxSegments |-> AssetFile(a, i)]]

SegmentBodies(url) ==
  LET f == Basename(url)
  IN  IF f.ext = ".enc" /\ f.num < MaxSegments
      THEN {AssetFiles[a][f.num + 1] : a \in AssetIds}
             \cup {FlipBitAt(AssetFiles[0][f.num + 1], 1, 0)}
      ELSE {SomeBytes}

\* statuses other than 200 a response may carry
OtherStatuses == {204, 404}

Responses(ld) ==
  IF ld.responseType = "text"
  THEN {TextResponse(HTTP_OK, m) : m \in ManifestBodies}
         \cup {TextResponse(st, <<>>) : st \in OtherStatuses}
  ELSE {BinaryResponse(HTTP_OK, b) : b \in SegmentBodies(ld.url)}
         \cup {BinaryResponse(st, <<>>) : st \in OtherStatuses}

Init ==
  /\ CipherIdle
  /\ CodecIdle
  /\ LoaderInit
  /\ PlayerIdle

\* EncryptedSegmentLoader.initialize()
Initialize ==
  /\ ~sodium
  /\ sodium' = TRUE
  /\ UNCHANGED <<decryptionKey, segmentNonces, loaders>>
  /\ UNCHANGED <<cipherVars, codecVars>>
  /\ UNCHANGED playerVars

\* the engine, created after initialize() resolved, makes an instance and
\* calls load(context, config, callbacks): the request is sent
Load(l) ==
  /\ sodium
  /\ loaders[l].pc = "new"
  /\ \E url \in Urls :
       loaders' = [loaders EXCEPT ![l] =
         [pc |-> "loading", url |-> url,
          responseType |-> IF url = PlaylistUrl THEN "text" ELSE "arraybuffer",
          response |-> NoResponse, events |-> <<>>, abortCalled |-> FALSE]]
  /\ UNCHANGED <<sodium, decryptionKey, segmentNonces>>
  /\ UNCHANGED <<cipherVars, codecVars>>
  /\ UNCHANGED playerVars

Deliver(l, response, outcome) ==
  /\ loaders' = [loaders EXCEPT ![l].pc = "done", ![l].response = response,
                                ![l].events = Append(@, outcome.event)]
  /\ decryptionKey' = outcome.decryptionKey
  /\ segmentNonces' = outcome.segmentNonces

\* the response arrived: xhr.onload runs
XhrOnload(l) ==
  /\ loaders[l].pc = "loading"
  /\ \E response \in Responses(loaders[l]) :
       Deliver(l, response,
               xhrOnload(sodium, loaders[l].url, loaders[l].responseType, response,
                         decryptionKey, segmentNonces))
  /\ UNCHANGED sodium
  /\ UNCHANGED <<cipherVars, codecVars>>
  /\ UNCHANGED playerVars

\* the transport failed: xhr.onerror runs
XhrOnerror(l) ==
  /\ loaders[l].pc = "loading"
  /\ Deliver(l, NoResponse, xhrOnerror(decryptionKey, segmentNonces))
  /\ UNCHANGED sodium
  /\ UNCHANGED <<cipherVars, codecVars>>
  /\ UNCHANGED playerVars

\* an abort() that clears the shared state
AbortClearing(l) ==
  /\ loaders[l].pc = "loading"
  /\ ~loaders[l].abortCalled
  /\ loaders' = [loaders EXCEPT ![l].abortCalled = TRUE]
  /\ decryptionKey' = Null
  /\ segmentNonces' = EmptyMap
  /\ UNCHANGED sodium
  /\ UNCHANGED <<cipherVars, codecVars>>
  /\ UNCHANGED playerVars

\* abort() while the request is in flight: the body is empty, the request
\* is not aborted and its handlers stay registered
Abort(l) ==
  /\ loaders[l].pc = "loading"
  /\ ~loaders[l].abortCalled
  /\ loaders' = [loaders EXCEPT ![l].abortCalled = TRUE]
  /\ UNCHANGED <<sodium, decryptionKey, segmentNonces>>
  /\ UNCHANGED <<cipherVars, codecVars>>
  /\ UNCHANGED playerVars

\* the engine is done with the instance: destroy() (which does nothing),
\* and the instance is dropped
Destroy(l) ==
  /\ loaders[l].pc = "done"
  /\ loaders' = [loaders EXCEPT ![l] = NewLoader]
  /\ UNCHANGED <<sodium, decryptionKey, segmentNonces>>
  /\ UNCHANGED <<cipherVars, codecVars>>
  /\ UNCHANGED playerVars

Next ==
  \/ Initialize
  \/ \E l \in LoaderIds : Load(l)
  \/ \E l \in LoaderIds : XhrOnload(l)
  \/ \E l \in LoaderIds : XhrOnerror(l)
  \/ \E l \in LoaderIds : Abort(l)
  \/ \E l \in LoaderIds : Destroy(l)

Spec == Init /\ [][Next]_vars

(***************************************************************************)
(* The playback session: the hook, the engine it creates, and the loader   *)
(* instances the engine makes.  The engine is the environment of the hook  *)
(* and of the loader: it fetches the manifest, then the segments the       *)
(* manifest it was given lists, one at a time; it raises MANIFEST_LOADED   *)
(* and ERROR events, an ERROR of any type, fatal or not, for a failure a   *)
(* loader reports; after a non-fatal error it goes on by itself, after a   *)
(* fatal one only when startLoad() is called.  A load request made while   *)
(* an engine exists makes a new engine and lets the hook refer to it; the  *)
(* one before is not destroyed and goes on as hls.earlier, its handlers    *)
(* still registered.  A further load request waits until the earlier       *)
(* engine has nothing more to fetch, and of the two engines one has a      *)
(* request in flight at a time.  failedUrl, failure, reported and          *)
(* resumedBy record the last failure of the engine the hook refers to      *)
(* until that engine's next request or the next load request.              *)
(***************************************************************************)
Support == {"hls", "native", "none"}

\* the URLs of the segments a manifest text lists, resolved against the
\* playlist's URL
Resolve(path) == IF StartsWithHttp(path) THEN path ELSE ServerOutputUrl \o path
SegmentsOf(text) ==
  LET refs == SelectSeq(text, LAMBDA line : line.kind = "ref")
  IN  [i \in 1..Len(refs) |-> Resolve(refs[i].path)]

\* loadEncryptedPlaylist(playlistUrl), up to the await; the buttons are
\* disabled while loadingStatus is 'loading'
EngineBusy(engine) == engine.want # "none" \/ engine.inflight # 0
Engine(h) == [want |-> h.want, segments |-> h.segments, next |-> h.next,
              inflight |-> h.inflight]

LoadEncryptedPlaylist ==
  /\ player.pc = "ready"
  /\ player.loadingStatus # "loading"
  /\ player.hlsRef => ~EngineBusy(hls.earlier)
  /\ player' = loadEncryptedPlaylistBegin(player)
  /\ hls' = [hls EXCEPT !.failedUrl = <<>>, !.failure = "",
                        !.reported = NoReport, !.resumedBy = ""]
  /\ UNCHANGED loaderVars
  /\ UNCHANGED <<cipherVars, codecVars>>

\* an initializePlayer that makes the engine without waiting for
\* EncryptedSegmentLoader.initialize()
PlayerInitializedWithoutLibrary ==
  /\ player.pc = "initializing"
  /\ \E support \in (IF player.hlsRef THEN {"hls"} ELSE Support) :
       /\ player' = initializePlayer(player, support)
       /\ hls' = IF support = "hls"
                 THEN [NoHls EXCEPT !.want = "manifest",
                                    !.earlier = IF player.hlsRef THEN Engine(hls)
                                                ELSE hls.earlier]
                 ELSE hls
  /\ UNCHANGED <<sodium, decryptionKey, segmentNonces, loaders>>
  /\ UNCHANGED <<cipherVars, codecVars>>

\* EncryptedSegmentLoader.initialize() resolved: the rest of
\* initializePlayer (new Hls, hlsRef.current = hls), then
\* hls.loadSource(playlistUrl)
PlayerInitialized ==
  /\ player.pc = "initializing"
  /\ sodium' = TRUE
  /\ \E support \in (IF player.hlsRef THEN {"hls"} ELSE Support) :
       /\ player' = initializePlayer(player, support)
       /\ hls' = IF support = "hls"
                 THEN [NoHls EXCEPT !.want = "manifest",
                                    !.earlier = IF player.hlsRef THEN Engine(hls)
                                                ELSE hls.earlier]
                 ELSE hls
  /\ UNCHANGED <<decryptionKey, segmentNonces, loaders>>
  /\ UNCHANGED <<cipherVars, codecVars>>

\* EncryptedSegmentLoader.initialize() rejected (sodium.ready failed): the
\* catch of initializePlayer; no engine is made
PlayerInitializationFailed ==
  /\ player.pc = "initializing"
  /\ ~sodium
  /\ player' = initializePlayerFailed(player)
  /\ UNCHANGED <<hls, loaderVars>>
  /\ UNCHANGED <<cipherVars, codecVars>>

\* the engine makes a loader instance and calls load() for what it wants,
\* once no request is in flight
HlsLoad ==
  /\ player.hlsRef
  /\ hls.want # "none"
  /\ hls.inflight = 0
  /\ \E l \in LoaderIds :
       /\ \A k \in LoaderIds : loaders[k].pc = "new" /\ l <= k
       /\ loaders' = [loaders EXCEPT ![l] =
            [pc |-> "loading",
             url |-> IF hls.want = "manifest" THEN PlaylistUrl ELSE hls.segments[hls.next],
             responseType |-> IF hls.want = "manifest" THEN "text" ELSE "arraybuffer",
             response |-> NoResponse, events |-> <<>>, abortCalled |-> FALSE]]
       /\ hls' = [hls EXCEPT !.inflight = l, !.failedUrl = <<>>, !.failure = "",
                             !.reported = NoReport, !.resumedBy = ""]
  /\ UNCHANGED <<player, sodium, decryptionKey, segmentNonces>>
  /\ UNCHANGED <<cipherVars, codecVars>>

\* the earlier engine calls load() for what it wants
EarlierHlsLoad ==
  /\ hls.earlier.want # "none"
  /\ hls.earlier.inflight = 0
  /\ \E l \in LoaderIds :
       /\ \A k \in LoaderIds : loaders[k].pc = "new" /\ l <= k
       /\ loaders' = [loaders EXCEPT ![l] =
            [pc |-> "loading",
             url |-> IF hls.earlier.want = "manifest" THEN PlaylistUrl
                     ELSE hls.earlier.segments[hls.earlier.next],
             responseType |-> IF hls.earlier.want = "manifest" THEN "text"
                              ELSE "arraybuffer",
             response |-> NoResponse, events |-> <<>>, abortCalled |-> FALSE]]
       /\ hls' = [hls EXCEPT !.earlier.inflight = l]
  /\ UNCHANGED <<player, sodium, decryptionKey, segmentNonces>>
  /\ UNCHANGED <<cipherVars, codecVars>>

\* callbacks.onSuccess of the earlier engine: its MANIFEST_LOADED handler
\* is the same closure over updateState
EarlierHlsOnSuccess(l, event) ==
  IF loaders[l].responseType = "text"
  THEN /\ player' = onManifestLoaded(player)
       /\ hls' = [hls EXCEPT !.earlier =
                    [inflight |-> 0, segments |-> SegmentsOf(event.text), next |-> 1,
                     want |-> IF SegmentsOf(event.text) = <<>> THEN "none"
                              ELSE "segment"]]
  ELSE /\ player' = player
       /\ hls' = [hls EXCEPT
                    !.earlier.inflight = 0,
                    !.earlier.next = IF @ < Len(hls.earlier.segments) THEN @ + 1 ELSE @,
                    !.earlier.want = IF hls.earlier.next < Len(hls.earlier.segments)
                                     THEN "segment" ELSE "none"]

\* callbacks.onError of the earlier engine: its ERROR handler runs, and
\* its startLoad() is the earlier engine's
EarlierHlsOnError(l, event) ==
  \E data \in ErrorData :
    LET handled == onHlsError(player, data)
    IN  /\ player' = handled.state
        /\ hls' = [hls EXCEPT
                     !.earlier.inflight = 0,
                     !.earlier.want = IF data.fatal /\ handled.call # "startLoad"
                                      THEN "none" ELSE @]

\* the engine's callbacks.onSuccess
HlsOnSuccess(l, event) ==
  IF loaders[l].responseType = "text"
  THEN /\ player' = onManifestLoaded(player)
       /\ hls' = [hls EXCEPT !.inflight = 0, !.resumedBy = "",
                             !.segments = SegmentsOf(event.text), !.next = 1,
                             !.want = IF SegmentsOf(event.text) = <<>> THEN "none"
                                      ELSE "segment"]
  ELSE /\ player' = player
       /\ hls' = [hls EXCEPT !.inflight = 0, !.resumedBy = "",
                             !.next = IF @ < Len(hls.segments) THEN @ + 1 ELSE @,
                             !.want = IF hls.next < Len(hls.segments) THEN "segment"
                                      ELSE "none"]

\* the engine's callbacks.onError: it raises ERROR, the hook's handler runs
HlsOnError(l, event) ==
  \E data \in ErrorData :
    LET handled == onHlsError(player, data)
    IN  /\ player' = handled.state
        /\ hls' = [hls EXCEPT
                     !.inflight = 0,
                     !.failedUrl = loaders[l].url,
                     !.failure = event.message,
                     !.reported = [type |-> data.type, fatal |-> data.fatal],
                     !.want = IF data.fatal /\ handled.call # "startLoad"
                              THEN "none" ELSE @,
                     !.resumedBy = IF ~data.fatal THEN "engine"
                                   ELSE IF handled.call = "startLoad" THEN "startLoad"
                                   ELSE ""]

\* a handler of the request of l ran with this outcome: the shared state is
\* written, the callback reaches the engine that made l (the one the hook
\* refers to, or the earlier one; a destroyed engine has no listeners
\* any more), and the engine drops the instance
HlsDeliver(l, outcome) ==
  /\ decryptionKey' = outcome.decryptionKey
  /\ segmentNonces' = outcome.segmentNonces
  /\ loaders' = [loaders EXCEPT ![l] = NewLoader]
  /\ IF player.hlsRef /\ hls.inflight = l
     THEN IF outcome.event.cb = "onSuccess"
          THEN HlsOnSuccess(l, outcome.event)
          ELSE HlsOnError(l, outcome.event)
     ELSE IF hls.earlier.inflight = l
     THEN IF outcome.event.cb = "onSuccess"
          THEN EarlierHlsOnSuccess(l, outcome.event)
          ELSE EarlierHlsOnError(l, outcome.event)
     ELSE UNCHANGED <<player, hls>>

\* xhr.onload of a request the engine made
HlsXhrOnload(l) ==
  /\ loaders[l].pc = "loading"
  /\ \E response \in Responses(loaders[l]) :
       HlsDeliver(l, xhrOnload(sodium, loaders[l].url, loaders[l].responseType,
                               response, decryptionKey, segmentNonces))
  /\ UNCHANGED sodium
  /\ UNCHANGED <<cipherVars, codecVars>>

\* xhr.onerror of a request the engine made
HlsXhrOnerror(l) ==
  /\ loaders[l].pc = "loading"
  /\ HlsDeliver(l, xhrOnerror(decryptionKey, segmentNonces))
  /\ UNCHANGED sodium
  /\ UNCHANGED <<cipherVars, codecVars>>

\* the video element raises 'error'
VideoError ==
  /\ player.loadingStatus # "idle"
  /\ player' = handleError(player)
  /\ UNCHANGED <<hls, loaderVars>>
  /\ UNCHANGED <<cipherVars, codecVars>>

\* destroy() of the hook: hls.destroy(), whose abort() and destroy() of the
\* loader in flight do nothing
PlayerDestroy ==
  /\ player.pc = "ready"
  /\ player.loadingStatus # "idle"
  /\ player' = playerDestroy(player)
  /\ hls' = IF player.hlsRef THEN [NoHls EXCEPT !.earlier = hls.earlier] ELSE hls
  /\ UNCHANGED loaderVars
  /\ UNCHANGED <<cipherVars, codecVars>>

PlayerNext ==
  \/ LoadEncryptedPlaylist
  \/ PlayerInitialized
  \/ PlayerInitializationFailed
  \/ HlsLoad
  \/ EarlierHlsLoad
  \/ \E l \in LoaderIds : HlsXhrOnload(l)
  \/ \E l \in LoaderIds : HlsXhrOnerror(l)
  \/ VideoError
  \/ PlayerDestroy

SpecPlayer == Init /\ [][PlayerNext]_vars

\* every fetch that was sent completes or fails, an engine that wants a
\* fetch sends it, and the await of initializePlayer ends; the user and
\* the video element are not obliged to do anything.  A request in flight
\* enables xhr.onerror until one of its handlers has run, so the weak
\* fairness of xhr.onerror says that no request stays in flight for ever;
\* it does not say that a request fails.
SpecPlayerFair ==
  /\ SpecPlayer
  /\ WF_vars(PlayerInitialized \/ PlayerInitializationFailed)
  /\ WF_vars(HlsLoad)
  /\ WF_vars(EarlierHlsLoad)
  /\ WF_vars(\E l \in LoaderIds : HlsXhrOnerror(l))

(***************************************************************************)
(* The callbacks of load as calls that may fail.  In xhr.onload every call *)
(* of callbacks.onSuccess stands inside a try block: the one of the text   *)
(* branch inside the inner try, whose catch calls onSuccess with the text  *)
(* as received, and all of them inside the outer try, whose catch calls    *)
(* onError.  The engine is created with debug: true, so what a listener    *)
(* of the engine throws comes back through the callback.  Under Spec       *)
(* every callback returns; here onSuccess returns or throws.               *)
(***************************************************************************)
\* the callbacks xhr.onload makes, in order, for a response
xhrOnloadCalls(sodiumReady, url, responseType, response, key, nonces, onSuccessThrows) ==
  LET first == xhrOnload(sodiumReady, url, responseType, response, key, nonces).event
      caught == OnError(response.status, "callback error")
  IN  IF ~onSuccessThrows \/ first.cb = "onError" THEN << first >>
      ELSE IF responseType = "text" /\ parseManifest(sodiumReady, response.text, url).ok
      \* thrown in the inner try: catch (keyError) calls onSuccess again
      THEN << first, OnSuccess(response.text, <<>>), caught >>
      \* thrown in the outer try: catch (error) calls onError
      ELSE << first, caught >>

XhrOnloadCalling(l) ==
  /\ loaders[l].pc = "loading"
  /\ \E response \in Responses(loaders[l]), onSuccessThrows \in BOOLEAN :
       LET outcome == xhrOnload(sodium, loaders[l].url, loaders[l].responseType,
                                response, decryptionKey, segmentNonces)
       IN  /\ loaders' = [loaders EXCEPT
                 ![l].pc = "done", ![l].response = response,
                 ![l].events = @ \o xhrOnloadCalls(sodium, loaders[l].url,
                                      loaders[l].responseType, response,
                                      decryptionKey, segmentNonces, onSuccessThrows)]
           /\ decryptionKey' = outcome.decryptionKey
           /\ segmentNonces' = outcome.segmentNonces
  /\ UNCHANGED sodium
  /\ UNCHANGED <<cipherVars, codecVars>>
  /\ UNCHANGED playerVars

CallbacksNext ==
  \/ Initialize
  \/ \E l \in LoaderIds : Load(l)
  \/ \E l \in LoaderIds : XhrOnloadCalling(l)
  \/ \E l \in LoaderIds : XhrOnerror(l)
  \/ \E l \in LoaderIds : Destroy(l)

SpecCallbacks == Init /\ [][CallbacksNext]_vars

(***************************************************************************)
(* End to end: the encode path writes an asset and its manifest; one       *)
(* loader instance fetches the manifest, from its network URL or from a    *)
(* blob URL made of the file, and gets the text as written, or with one    *)
(* nonce directive damaged, or with the references in another form (the    *)
(* asset hosted elsewhere); then the segments the delivered manifest lists *)
(* are fetched, in any order, each answered with the stored file.          *)
(***************************************************************************)
ManifestLoader == 1
SegmentLoader == 2

ReplaceLine(text, i, line) == [text EXCEPT ![i] = line]

\* the ways a nonce directive is damaged: its tag no longer the directive's,
\* one character of its payload changed, its payload gone
Damages == {"tag", "payload", "empty"}
CorruptNonce(text, i, how) ==
  ReplaceLine(text, i,
    IF how = "tag" THEN Tag("#EXT-X-SEGMENT-NONCF", 0)
    ELSE IF how = "payload"
    THEN NonceDirective([text[i].b64 EXCEPT ![1] = (@ + 1) % CH_PAD])
    ELSE NonceDirective(<<>>))

\* the forms of a segment reference other than the bare file name
Forms == {"relative", "absolute", "rootRelative"}
RefInForm(f, form) ==
  IF form = "relative" THEN << File("segments", 0, ""), f >>
  ELSE IF form = "absolute" THEN ServerOutputUrl \o << f >>
  ELSE << File("", 0, "") >> \o SubSeq(ServerOutputUrl, 4, Len(ServerOutputUrl)) \o << f >>
Rehost(text, form) ==
  [i \in DOMAIN text |->
     IF text[i].kind = "ref"
     THEN SegmentRef(RefInForm(Basename(text[i].path), form))
     ELSE text[i]]

ServedTexts(text) ==
  {text}
    \cup {CorruptNonce(text, i, how) :
            i \in {k \in DOMAIN text : text[k].kind = "nonce"}, how \in Damages}
    \cup {Rehost(text, form) : form \in Forms}

\* the URL the engine requests for a reference of a manifest loaded from
\* url, or the empty path when the reference cannot be resolved (a relative
\* reference against a blob URL)
ResolveAgainst(url, path) ==
  IF StartsWithHttp(path) THEN path
  ELSE IF IsBlobUrl(url) THEN <<>>
  ELSE IF StartsWithSlash(path) THEN SubSeq(url, 1, 3) \o Tail(path)
  ELSE SubSeq(url, 1, Len(url) - 1) \o path

\* the segment URLs of the manifest the manifest loader handed to onSuccess
DeliveredSegmentUrls ==
  LET ld == loaders[ManifestLoader]
      text == IF ld.events # <<>> /\ ld.events[1].cb = "onSuccess"
              THEN ld.events[1].text ELSE <<>>
  IN  {ResolveAgainst(ld.url, text[i].path) :
         i \in {k \in DOMAIN text : text[k].kind = "ref"}} \ {<<>>}

\* the file the server holds under the name f
StoredFile(f) ==
  LET segs == asset.encryptedSegments
      hits == {i \in DOMAIN segs : segs[i].encrypted = f}
  IN  IF hits = {} THEN <<>> ELSE asset.files[CHOOSE i \in hits : TRUE]

FetchManifest ==
  /\ sodium /\ playlist.called
  /\ loaders[ManifestLoader].pc = "new"
  /\ \E url \in {PlaylistUrl, BlobUrl} :
       loaders' = [loaders EXCEPT ![ManifestLoader] =
         [pc |-> "loading", url |-> url, responseType |-> "text",
          response |-> NoResponse, events |-> <<>>, abortCalled |-> FALSE]]
  /\ UNCHANGED <<sodium, decryptionKey, segmentNonces>>
  /\ UNCHANGED <<cipherVars, codecVars>>
  /\ UNCHANGED playerVars

ManifestArrives ==
  /\ loaders[ManifestLoader].pc = "loading"
  /\ \E text \in ServedTexts(playlist.text) :
       Deliver(ManifestLoader, TextResponse(HTTP_OK, text),
               xhrOnload(sodium, loaders[ManifestLoader].url, "text",
                         TextResponse(HTTP_OK, text), decryptionKey, segmentNonces))
  /\ UNCHANGED sodium
  /\ UNCHANGED <<cipherVars, codecVars>>
  /\ UNCHANGED playerVars

\* the instance of the previous segment fetch, if any, is dropped
FetchSegment ==
  /\ loaders[ManifestLoader].pc = "done"
  /\ loaders[SegmentLoader].pc # "loading"
  /\ \E url \in DeliveredSegmentUrls :
       loaders' = [loaders EXCEPT ![SegmentLoader] =
         [pc |-> "loading", url |-> url, responseType |-> "arraybuffer",
          response |-> NoResponse, events |-> <<>>, abortCalled |-> FALSE]]
  /\ UNCHANGED <<sodium, decryptionKey, segmentNonces>>
  /\ UNCHANGED <<cipherVars, codecVars>>
  /\ UNCHANGED playerVars

SegmentArrives ==
  /\ loaders[SegmentLoader].pc = "loading"
  /\ LET response ==
           BinaryResponse(HTTP_OK, StoredFile(Basename(loaders[SegmentLoader].url)))
     IN  Deliver(SegmentLoader, response,
                 xhrOnload(sodium, loaders[SegmentLoader].url, "arraybuffer",
                           response, decryptionKey, segmentNonces))
  /\ UNCHANGED sodium
  /\ UNCHANGED <<cipherVars, codecVars>>
  /\ UNCHANGED playerVars

EndToEndNext ==
  \/ RunEncryptHLSSegments
  \/ RunGenerateCustomM3U8
  \/ Initialize
  \/ FetchManifest
  \/ ManifestArrives
  \/ FetchSegment
  \/ SegmentArrives

SpecEndToEnd == CodecInit /\ [][EndToEndNext]_vars

(***************************************************************************)
(* Properties of load (checked under Spec).                                *)
(***************************************************************************)
\* the last non-blank line of the text is a nonce directive
EndsWithNonceDirective(text) ==
  LET nonBlank == {i \in 1..Len(text) : text[i].kind # "blank"}
  IN  nonBlank # {} /\ text[Max(nonBlank)].kind = "nonce"

Done(l) == loaders[l].pc = "done"
\* the response the code treats as a success (xhr.status === 200)
GotText(l) ==
  Done(l) /\ loaders[l].responseType = "text" /\ loaders[l].response.status = HTTP_OK
HasKeyDirective(text) == \E i \in DOMAIN text : text[i].kind = "key"
Calls(l, cb) == {i \in DOMAIN loaders[l].events : loaders[l].events[i].cb = cb}

\* C6: a load that got a successful text response without a key directive
\* hands exactly that text, unchanged, to onSuccess and never calls onError.
C6_MissingKeyPassThrough ==
  \A l \in LoaderIds :
    (GotText(l) /\ ~HasKeyDirective(loaders[l].response.text))
      => loaders[l].events = << OnSuccess(loaders[l].response.text, <<>>) >>

\* a manifest without a key directive, which cleaning would have changed
\* (it has a blank line), was passed through
C6_Witness ==
  \E l \in LoaderIds :
    /\ GotText(l) /\ ~HasKeyDirective(loaders[l].response.text)
    /\ cleanM3U8ForHls(loaders[l].response.text, loaders[l].url)
         # loaders[l].response.text
    /\ Calls(l, "onSuccess") # {}

\* a key directive whose payload neither decoder accepts
KeyPayloadUndecodable(text) ==
  /\ KeyMatches(text) # {}
  /\ ~DecodeBase64WithFallback(text[Min(KeyMatches(text))].b64).ok

\* C7: when the manifest has a key directive and parsing fails for another
\* reason than a missing key (an undecodable key payload, a truncated
\* nonce directive), load calls onError and never hands the manifest to
\* onSuccess.
C7_OtherParseFailuresFailTheFetch ==
  \A l \in LoaderIds :
    (GotText(l) /\ HasKeyDirective(loaders[l].response.text)
       /\ (KeyPayloadUndecodable(loaders[l].response.text)
            \/ EndsWithNonceDirective(loaders[l].response.text)))
      => (Calls(l, "onSuccess") = {} /\ Calls(l, "onError") # {})

\* loader l completes a successful binary response for a '.enc' URL
SegmentCompletes(l) ==
  /\ loaders[l].pc = "loading" /\ loaders'[l].pc = "done"
  /\ loaders[l].responseType = "arraybuffer" /\ EndsWithEnc(loaders[l].url)
  /\ loaders'[l].response.status = HTTP_OK

NonceKnown(l) == << Basename(loaders[l].url) >> \in DOMAIN segmentNonces

\* C9: a successful binary response for an encrypted segment whose basename
\* has no entry in the shared nonce table (also before any manifest was
\* parsed) ends in onError with the nonce-not-found error and never in
\* onSuccess; this is decided before the key is looked at and before any
\* decryption, so it is the outcome whatever the key and the body are.
C9_NonceNotFound ==
  [][\A l \in LoaderIds :
       (SegmentCompletes(l) /\ ~NonceKnown(l))
         => loaders'[l].events = << OnError(HTTP_OK, "Nonce not found for segment") >>]_vars

\* the segment of a listed name arrived before any manifest was parsed:
\* no table, no key
C9_Witness ==
  \E l \in LoaderIds :
    /\ Done(l) /\ loaders[l].response.status = HTTP_OK
    /\ EndsWithEnc(loaders[l].url) /\ Basename(loaders[l].url).num = 0
    /\ segmentNonces = EmptyMap /\ decryptionKey = Null
    /\ loaders[l].events = << OnError(HTTP_OK, "Nonce not found for segment") >>

\* C10 speaks of a segment whose nonce is in the table while the shared key
\* is absent.  No reachable state is such a state: the key and the table
\* are stored by the same handler, the key first.
NonceTableImpliesKey == segmentNonces # EmptyMap => decryptionKey # Null

\* loader l completes a successful text response
ManifestCompletes(l) ==
  /\ loaders[l].pc = "loading" /\ loaders'[l].pc = "done"
  /\ loaders[l].responseType = "text"
  /\ loaders'[l].response.status = HTTP_OK

\* the nonce table of asset a: one entry per segment file name
AssetTable(a) ==
  [k \in {<< SegmentEnc(i - 1) >> : i \in 1..MaxSegments} |->
     BufferToBase64(AssetNonceDraws(a)[k[1].num + 1])]

AssetKeys == [a \in AssetIds |-> AssetKey(a)]
AssetTables == [a \in AssetIds |-> AssetTable(a)]
AssetManifests == [a \in AssetIds |-> AssetManifest(a)]

\* C11: when load completes a manifest whose key is parsed, the shared key
\* is that manifest's key and the shared nonce table is exactly the table
\* parsed from that manifest, whatever was stored before; for the manifest
\* of an asset these are the asset's key and one entry per segment of it.
C11_ManifestReplacesState ==
  [][\A l \in LoaderIds :
       LET text == loaders'[l].response.text
           key == parseEncryptionKey(sodium, text)
       IN  (ManifestCompletes(l) /\ key.ok)
             => /\ decryptionKey' = key.val
                /\ segmentNonces' = parseSegmentNonces(text)
                /\ \A a \in AssetIds :
                     text = AssetManifests[a]
                       => (decryptionKey' = AssetKeys[a] /\ segmentNonces' = AssetTables[a])]_vars

\* the manifest of asset 0 was loaded, and the state is the one of a
\* manifest loaded by another instance that lacks an entry of asset 0
C11_Witness ==
  \E l1, l2 \in LoaderIds :
    /\ l1 # l2 /\ GotText(l1) /\ GotText(l2)
    /\ loaders[l1].response.text = AssetManifest(0)
    /\ parseEncryptionKey(sodium, loaders[l2].response.text).ok
    /\ segmentNonces = parseSegmentNonces(loaders[l2].response.text)
    /\ DOMAIN AssetTable(0) \ DOMAIN segmentNonces # {}

\* C12: once a manifest load has completed, whatever the manifest holds,
\* the shared key and nonce table are the ones of that manifest, or empty
\* when it has none; nothing of an earlier manifest is left.
C12_ManifestLoadOverwrites ==
  [][\A l \in LoaderIds :
       LET text == loaders'[l].response.text
           key == parseEncryptionKey(sodium, text)
       IN  ManifestCompletes(l)
             => IF key.ok
                THEN decryptionKey' = key.val /\ segmentNonces' = parseSegmentNonces(text)
                ELSE decryptionKey' = Null /\ segmentNonces' = EmptyMap]_vars

\* a step that writes the shared key or table writes both, as parsed from
\* the one manifest text a completing load received
WritesStateOfOneManifest ==
  (decryptionKey' # decryptionKey \/ segmentNonces' # segmentNonces)
    => \E l \in LoaderIds :
         /\ ManifestCompletes(l)
         /\ parseEncryptionKey(TRUE, loaders'[l].response.text).ok
         /\ decryptionKey' = parseEncryptionKey(TRUE, loaders'[l].response.text).val
         /\ segmentNonces' = parseSegmentNonces(loaders'[l].response.text)

\* loader l is about to complete segment f of asset a with the key and the
\* nonce of that asset in the shared state
OwnSegmentOf(l, a) ==
  LET f == Basename(loaders[l].url)
  IN  /\ SegmentCompletes(l)
      /\ f.num < MaxSegments
      /\ decryptionKey = AssetKeys[a]
      /\ NonceKnown(l)
      /\ segmentNonces[<< f >>] = AssetTables[a][<< f >>]
      /\ loaders'[l].response.bytes = AssetFiles[a][f.num + 1]

\* C13: with the state of a parsed manifest in place, segment fetches of
\* several instances, completing in any order, each hand the plaintext of
\* their own segment to onSuccess; and the shared key and table, empty at
\* first, are only ever written together from one manifest, so no state
\* holds a mix of two manifests or a part of a table.
C13_ConcurrentSegmentsDecrypt ==
  /\ [][WritesStateOfOneManifest]_vars
  /\ [][\A l \in LoaderIds : \A a \in AssetIds :
          OwnSegmentOf(l, a)
            => loaders'[l].events =
                 << OnSuccess(<<>>, SegmentData(SegmentTs(Basename(loaders[l].url).num))) >>]_vars

\* two instances fetched different segments of one asset and both got
\* their own plaintext
C13_Witness ==
  \E l1, l2 \in LoaderIds :
    /\ Done(l1) /\ Done(l2)
    /\ EndsWithEnc(loaders[l1].url) /\ EndsWithEnc(loaders[l2].url)
    /\ Basename(loaders[l1].url).num # Basename(loaders[l2].url).num
    /\ \A l \in {l1, l2} :
         loaders[l].events =
           << OnSuccess(<<>>, SegmentData(SegmentTs(Basename(loaders[l].url).num))) >>

\* loader l completes a fetch that is not a manifest fetch: any response,
\* or no response at all
OtherFetchCompletes(l) ==
  /\ loaders[l].pc = "loading" /\ loaders'[l].pc = "done"
  /\ loaders[l].responseType # "text"

\* C14: a segment fetch or any other non-manifest fetch, successful or
\* failed, leaves the shared key and nonce table as they were; a step that
\* changes either of them is the completion of a manifest load.
C14_OnlyManifestLoadWrites ==
  /\ [][\A l \in LoaderIds :
          OtherFetchCompletes(l)
            => (decryptionKey' = decryptionKey /\ segmentNonces' = segmentNonces)]_vars
  /\ [][(decryptionKey' # decryptionKey \/ segmentNonces' # segmentNonces)
          => \E l \in LoaderIds : ManifestCompletes(l)]_vars

\* with a key and a table stored, one segment fetch was decrypted and
\* another failed
C14_Witness ==
  \E l1, l2 \in LoaderIds :
    /\ Done(l1) /\ Done(l2)
    /\ EndsWithEnc(loaders[l1].url) /\ EndsWithEnc(loaders[l2].url)
    /\ Calls(l1, "onSuccess") # {} /\ Calls(l2, "onError") # {}
    /\ loaders[l2].response.status = HTTP_OK
    /\ decryptionKey # Null /\ segmentNonces # EmptyMap

\* abort() was called on l in this step
AbortStep(l) == ~loaders[l].abortCalled /\ loaders'[l].abortCalled
\* destroy() was called on l in this step and the instance dropped
DestroyStep(l) == loaders[l].pc = "done" /\ loaders'[l].pc = "new"

\* C15: abort() and destroy() of an instance leave the shared key and nonce
\* table as they were, and a segment fetch of another instance completing
\* after an abort() still gets the plaintext of its segment with the state
\* the last manifest load stored.
C15_AbortDestroyKeepState ==
  /\ [][\A l \in LoaderIds :
          (AbortStep(l) \/ DestroyStep(l))
            => (decryptionKey' = decryptionKey /\ segmentNonces' = segmentNonces)]_vars
  /\ [][\A l1, l2 \in LoaderIds : \A a \in AssetIds :
          (l1 # l2 /\ loaders[l1].abortCalled /\ OwnSegmentOf(l2, a))
            => Calls(l2, "onSuccess")' # {}]_vars

\* abort() was called on one instance, and another instance got the
\* plaintext of its segment
C15_Witness ==
  \E l1, l2 \in LoaderIds :
    /\ l1 # l2 /\ loaders[l1].abortCalled
    /\ Done(l2) /\ EndsWithEnc(loaders[l2].url) /\ decryptionKey # Null
    /\ loaders[l2].events =
         << OnSuccess(<<>>, SegmentData(SegmentTs(Basename(loaders[l2].url).num))) >>

\* C16: once abort() was called on an instance whose request is in flight,
\* that load makes no callback any more: neither onSuccess nor onError,
\* whatever arrives afterwards.
C16_NoLateResultAfterAbort ==
  \A l \in LoaderIds : loaders[l].abortCalled => loaders[l].events = <<>>

\* a response arrived for the load of l
GotResponse(l) == Done(l) /\ loaders[l].response # NoResponse
Is2xx(status) == status \div 100 = 2
\* the error of the non-200 branch: the response's status and status text
NetworkError(status) == OnError(status, "statusText")
\* the error of xhr.onerror: xhr.status is 0 when no response arrived
IsTransportError(e) == e.cb = "onError" /\ e.code = 0

\* C17: a response is failed through onError with the network error that
\* carries its status exactly when the status is outside 2xx; a response
\* with a 2xx status is processed instead.
C17_NetworkErrorExactlyNon2xx ==
  \A l \in LoaderIds :
    GotResponse(l)
      => ((loaders[l].events = << NetworkError(loaders[l].response.status) >>)
            <=> ~Is2xx(loaders[l].response.status))

\* C18: a load that got no response at all calls onError once, with an
\* error no load that got a response reports: neither the error of a
\* non-2xx status nor a decrypt or state error of a received response.
C18_TransportErrorDistinct ==
  \A l \in LoaderIds :
    /\ (Done(l) /\ loaders[l].response = NoResponse)
         => /\ Len(loaders[l].events) = 1
            /\ IsTransportError(loaders[l].events[1])
            /\ loaders[l].events[1].message = "Network Error"
    /\ GotResponse(l)
         => \A i \in DOMAIN loaders[l].events :
              /\ ~IsTransportError(loaders[l].events[i])
              /\ loaders[l].events[i].message # "Network Error"

\* one load failed without a response, another got a response and failed
\* on it
C18_Witness ==
  \E l1, l2 \in LoaderIds :
    /\ Done(l1) /\ loaders[l1].response = NoResponse
    /\ Calls(l1, "onError") # {}
    /\ GotResponse(l2) /\ Calls(l2, "onError") # {}

\* the transport of the load of l completes in this step
TransportCompletes(l) == loaders[l].pc = "loading" /\ loaders'[l].pc = "done"

\* C29: a load makes no callback before its transport completes, and when
\* it completes (response or transport failure) it makes exactly one
\* callback, onSuccess or onError, once: never both, never one twice; and
\* a load has one request, so one completion.
C29_ExactlyOneCallback ==
  /\ [](\A l \in LoaderIds :
          /\ loaders[l].pc = "loading" => loaders[l].events = <<>>
          /\ Done(l) => Len(loaders[l].events) = 1)
  /\ [][\A l \in LoaderIds :
          loaders'[l].events # loaders[l].events
            => \/ loaders'[l].events = <<>>
               \/ TransportCompletes(l) /\ loaders[l].events = <<>>]_vars

KeyUnavailable == "Decryption key not available"
\* the shared state changes in this step only as the write of one manifest
\* load, which stores the key and the nonce table of the same text
StoresBothOfOneManifest ==
  (decryptionKey' # decryptionKey \/ segmentNonces' # segmentNonces)
    => \E l \in LoaderIds :
         /\ ManifestCompletes(l)
         /\ parseEncryptionKey(sodium, loaders'[l].response.text).ok
         /\ decryptionKey' = parseEncryptionKey(sodium, loaders'[l].response.text).val
         /\ segmentNonces' = parseSegmentNonces(loaders'[l].response.text)

\* C30: the shared key and the shared nonce table are always those of one
\* manifest: a manifest load stores both or neither; so whenever the nonce
\* table is non-empty the key is present, and no segment fetch ends in the
\* key-unavailable error.
C30_KeyAndTableOfOneManifest ==
  /\ [][StoresBothOfOneManifest]_vars
  /\ [](segmentNonces # EmptyMap => decryptionKey # Null)
  /\ [](\A l \in LoaderIds : \A i \in DOMAIN loaders[l].events :
          loaders[l].events[i].message # KeyUnavailable)
C30_Witness ==
  /\ segmentNonces # EmptyMap /\ decryptionKey # Null
  /\ \E l1, l2 \in LoaderIds :
       /\ GotText(l1) /\ HasKeyDirective(loaders[l1].response.text)
       /\ segmentNonces = parseSegmentNonces(loaders[l1].response.text)
       /\ Done(l2) /\ EndsWithEnc(loaders[l2].url) /\ NonceKnown(l2)
       /\ loaders[l2].response.status = HTTP_OK

(***************************************************************************)
(* Properties of the playback session (checked under SpecPlayer).          *)
(***************************************************************************)
\* the error a failed decryption of a fetched segment is reported with
IsDecryptFailure(e) == IsIntegrityError(e) \/ IsMalformedKeyMaterial(e)

\* a request is sent for l in this step
LoadStep(l) == loaders[l].pc = "new" /\ loaders'[l].pc = "loading"

\* C19: a segment whose decryption failed, the failure reported through
\* onError, is not requested again because of it: the hook's ERROR handler
\* does not make the engine fetch the same segment once more.
C19_DecryptFailureNotRefetched ==
  [][\A l \in LoaderIds :
       (LoadStep(l) /\ hls'.inflight = l
          /\ IsDecryptFailure(hls.failure) /\ hls.resumedBy = "startLoad")
         => loaders'[l].url # hls.failedUrl]_vars

\* C20: when the engine has reported a fatal failure of a fetch, the
\* session's status is 'error' and its error message is not empty, and it
\* stays so until the next load request.
C20_FatalFailureIsErrorState ==
  hls.reported.fatal
    => (player.loadingStatus = "error" /\ player.error # NoError)

\* loadEncryptedPlaylist is called in this step
LoadRequestStep == player.pc = "ready" /\ player'.pc = "initializing"
\* the manifest fetch of the engine the hook refers to succeeds in this step
ManifestFetchSucceedsStep ==
  \E l \in LoaderIds :
    /\ player.hlsRef /\ hls.inflight = l
    /\ loaders[l].pc = "loading" /\ loaders[l].responseType = "text"
    /\ loaders'[l].pc = "new"
    /\ hls'.want # "manifest"

\* C21: the session status becomes 'loading' only by a load request,
\* becomes 'loaded' or 'error' only from 'loading', and becomes 'loaded'
\* only in the step in which the manifest fetch of the current load request
\* succeeds.
C21_StatusStateMachine ==
  [][/\ (player'.loadingStatus = "loading" /\ player.loadingStatus # "loading")
          => LoadRequestStep
     /\ (player'.loadingStatus \in {"loaded", "error"}
           /\ player'.loadingStatus # player.loadingStatus)
          => player.loadingStatus = "loading"
     /\ (player'.loadingStatus = "loaded" /\ player.loadingStatus # "loaded")
          => ManifestFetchSucceedsStep]_vars

\* C31: a session whose status is 'loading' does not stay so for ever:
\* with every fetch completing or failing, the status eventually is
\* 'loaded' or 'error' (or the session was destroyed), also when the
\* fetches keep failing and when the browser plays the playlist natively.
C31_LoadResolves ==
  (player.loadingStatus = "loading") ~> (player.loadingStatus # "loading")

\* a manifest the load may get parses with the library state as it is
\* whenever it parses with the library present
LibraryNotMissed ==
  \/ sodium
  \/ \A m \in ManifestBodies :
       parseEncryptionKey(TRUE, m).ok => parseEncryptionKey(sodium, m).ok

\* C32: a loader instance exists only after the crypto library was
\* initialised, the library, once set, stays set, and so no manifest with
\* a usable key directive is passed through as unencrypted for want of the
\* library.
C32_LibraryBeforeManifest ==
  /\ [](\A l \in LoaderIds : loaders[l].pc # "new" => (sodium /\ LibraryNotMissed))
  /\ [](player.hlsRef => sodium)
  /\ [][sodium => sodium']_vars
C32_Witness ==
  /\ sodium /\ player.hlsRef
  /\ player.loadingStatus = "loaded" /\ hls.want = "segment"
  /\ decryptionKey # Null /\ segmentNonces # EmptyMap

\* a request of the earlier engine completes in this step
EarlierCompletes(l) ==
  /\ hls.earlier.inflight = l
  /\ loaders[l].pc = "loading" /\ loaders'[l].pc = "new"

\* C33: after a second load request the engine of the earlier request is
\* out of the session: it has nothing in flight and nothing more to fetch
\* while the hook refers to a newer engine, and no completion of one of its
\* requests changes the session status or the shared key and nonce table.
C33_EarlierEngineAbandoned ==
  /\ [](player.hlsRef => ~EngineBusy(hls.earlier))
  /\ [][\A l \in LoaderIds :
          EarlierCompletes(l)
            => /\ player'.loadingStatus = player.loadingStatus
               /\ decryptionKey' = decryptionKey
               /\ segmentNonces' = segmentNonces]_vars

(***************************************************************************)
(* Properties of the manifest codec (checked under SpecCodec).             *)
(***************************************************************************)
\* C5: parsing the manifest generateCustomM3U8 wrote for a non-empty
\* segment list yields the key it was given, and a nonce table whose
\* entries are exactly the segments' basenames, each mapped to the nonce
\* that segment was given.
SegmentKey(seg) == << Basename(<< seg.encrypted >>) >>

C5_ManifestRoundTrip ==
  (parsed.called /\ ~playlist.partial /\ Len(asset.encryptedSegments) > 0)
    => /\ parsed.out.ok
       /\ parsed.out.val.key = asset.masterKey
       /\ DOMAIN parsed.out.val.segmentNonces =
            {SegmentKey(asset.encryptedSegments[i]) : i \in DOMAIN asset.encryptedSegments}
       /\ \A i \in DOMAIN asset.encryptedSegments :
            parsed.out.val.segmentNonces[SegmentKey(asset.encryptedSegments[i])]
              = asset.encryptedSegments[i].nonce

\* a manifest of two segments with different nonces, listed out of order,
\* was parsed
C5_Witness ==
  /\ parsed.called /\ ~playlist.partial /\ parsed.out.ok
  /\ Len(asset.encryptedSegments) = 2
  /\ asset.encryptedSegments[1].nonce # asset.encryptedSegments[2].nonce
  /\ asset.encryptedSegments[1].encrypted.num > asset.encryptedSegments[2].encrypted.num

\* the manifest as generateCustomM3U8 returned it
Rendered == playlist.called /\ ~playlist.partial
LinesOfKind(text, kind) == {i \in DOMAIN text : text[i].kind = kind}
\* the index of the n-th segment reference of the text
NthRef(text, n) ==
  CHOOSE j \in LinesOfKind(text, "ref") :
    Cardinality({k \in LinesOfKind(text, "ref") : k <= j}) = n

\* C24: the manifest generateCustomM3U8 returns, for any segment list (the
\* empty one included), has the key directive exactly once and before
\* every nonce directive and segment reference; has as many nonce
\* directives as references, each reference directly after the one nonce
\* directive that carries its segment's nonce; lists the segments in the
\* order given; and ends with the end-of-list marker.
C24_RenderedManifestShape ==
  Rendered =>
    LET text == playlist.text
        segs == asset.encryptedSegments
        refs == LinesOfKind(text, "ref")
        nonces == LinesOfKind(text, "nonce")
    IN  /\ Cardinality(LinesOfKind(text, "key")) = 1
        /\ \A k \in LinesOfKind(text, "key") : \A j \in refs \cup nonces : k < j
        /\ Cardinality(nonces) = Cardinality(refs)
        /\ \A j \in refs : j > 1 /\ text[j - 1].kind = "nonce"
        /\ Cardinality(refs) = Len(segs)
        /\ \A n \in DOMAIN segs :
             /\ text[NthRef(text, n)].path = << segs[n].encrypted >>
             /\ text[NthRef(text, n) - 1].b64 = segs[n].nonce
        /\ text[Len(text)] = Tag("#EXT-X-ENDLIST", 0)

\* the manifest of two segments was generated
C24_Witness ==
  /\ Rendered
  /\ Len(asset.encryptedSegments) = 2
  /\ Cardinality(LinesOfKind(playlist.text, "nonce")) = 2

\* the nonce generateNonce() returned for a segment: the bytes whose base64
\* text the segment's entry carries
DrawOf(seg) == CHOOSE n \in generateNonce : BufferToBase64(n) = seg.nonce

\* C26: in an encoded asset every segment file is the segment's plaintext
\* encrypted under the asset's one master key with the segment's nonce,
\* and no two segments have the same nonce.
C26_NoNonceReuse ==
  asset.called =>
    /\ \A i \in DOMAIN asset.encryptedSegments :
         decryptSegment(asset.files[i], asset.masterKey,
                        DrawOf(asset.encryptedSegments[i]), <<>>)
           = Returned(SegmentData(asset.encryptedSegments[i].original))
    /\ \A i, j \in DOMAIN asset.encryptedSegments :
         i # j => asset.encryptedSegments[i].nonce # asset.encryptedSegments[j].nonce

\* C27: the manifest lists the segments in the lexical order of their file
\* names, whatever the order of the directory listing.
C27_ManifestInLexicalOrder ==
  Rendered =>
    \A m, n \in 1..Cardinality(LinesOfKind(playlist.text, "ref")) :
      m < n => playlist.text[NthRef(playlist.text, m)].path[1].num
                 < playlist.text[NthRef(playlist.text, n)].path[1].num

\* C8: parsing a manifest whose last non-blank line is a nonce directive
\* fails with TruncatedNonceDirective; no nonce table is produced.
C8_TruncatedNonceDirectiveFails ==
  (parsed.called /\ EndsWithNonceDirective(playlist.text))
    => (~parsed.out.ok /\ parsed.out.err = "TruncatedNonceDirective")

(***************************************************************************)
(* Properties of the whole path (checked under SpecEndToEnd).              *)
(***************************************************************************)
\* the manifest loader got this text and is done
ManifestLoaded(text) ==
  Done(ManifestLoader) /\ loaders[ManifestLoader].response.text = text
\* the segment of the asset whose encrypted file has the name of the URL
\* the segment loader fetched
FetchedSegment ==
  CHOOSE n \in DOMAIN asset.encryptedSegments :
    asset.encryptedSegments[n].encrypted = Basename(loaders[SegmentLoader].url)
GotPlaintext ==
  loaders[SegmentLoader].events =
    << OnSuccess(<<>>, SegmentData(asset.encryptedSegments[FetchedSegment].original)) >>
\* the nonce directive of the n-th segment of the text
NonceLineOf(text, n) == NthRef(text, n) - 1

\* C22: with the manifest of an encoded asset loaded as written, the fetch
\* of any of its segments hands the segment's original bytes to onSuccess;
\* with the nonce directive of one segment damaged in the text that was
\* loaded, the fetch of that segment ends in the nonce-not-found error and
\* the fetch of every other segment still hands over the original bytes.
C22_EndToEnd ==
  Rendered /\ Done(SegmentLoader) =>
    /\ ManifestLoaded(playlist.text) => GotPlaintext
    /\ \A n \in DOMAIN asset.encryptedSegments : \A how \in Damages :
         ManifestLoaded(CorruptNonce(playlist.text, NonceLineOf(playlist.text, n), how))
           => IF n = FetchedSegment
              THEN loaders[SegmentLoader].events
                     = << OnError(HTTP_OK, "Nonce not found for segment") >>
              ELSE GotPlaintext

\* C23: whatever the form of the references of the manifest that was
\* loaded (bare file name, relative path with a directory, absolute URL,
\* root-relative path), the nonce table has, under the file name of each
\* segment, that segment's nonce, and no fetch of a listed segment ends in
\* the nonce-not-found error.
C23_TableKeyedByBasename ==
  Rendered =>
  \A text \in {playlist.text, Rehost(playlist.text, "relative"),
               Rehost(playlist.text, "absolute")} :
    ManifestLoaded(text) =>
      /\ \A n \in DOMAIN asset.encryptedSegments :
           /\ << asset.encryptedSegments[n].encrypted >> \in DOMAIN segmentNonces
           /\ segmentNonces[<< asset.encryptedSegments[n].encrypted >>]
                = asset.encryptedSegments[n].nonce
      /\ Done(SegmentLoader) => GotPlaintext

\* the manifest loader completed the load of a manifest with a key directive
EncryptedManifestLoaded ==
  Done(ManifestLoader) /\ KeyMatches(loaders[ManifestLoader].response.text) # {}
OriginalManifest == loaders[ManifestLoader].response.text
CleanedManifest == loaders[ManifestLoader].events[1].text
\* the lines of the text that are neither blank nor a key or nonce directive
OtherLines(text) ==
  SelectSeq(text, LAMBDA l : l.kind # "blank" /\ l.kind # "key" /\ l.kind # "nonce")
NoProprietaryLine(text) ==
  \A i \in DOMAIN text : text[i].kind # "key" /\ text[i].kind # "nonce"
RECURSIVE IsSubsequence(_, _)
IsSubsequence(s, t) ==
  IF s = <<>> THEN TRUE
  ELSE IF t = <<>> THEN FALSE
  ELSE IF Head(s) = Head(t) THEN IsSubsequence(Tail(s), Tail(t))
  ELSE IsSubsequence(s, Tail(t))
\* a reference that is a file name only, with the encrypted extension
IsBareEnc(path) == Len(path) = 1 /\ EndsWithEnc(path)
\* line c is line o with its reference made absolute, the file name kept
IsRewriteOf(c, o) ==
  /\ o.kind = "ref" /\ c.kind = "ref"
  /\ ~StartsWithHttp(o.path) /\ ~StartsWithSlash(o.path) /\ EndsWithEnc(o.path)
  /\ StartsWithHttp(c.path)
  /\ Basename(c.path) = Basename(o.path)

SameKeyAndNonce == dec.key = vec.key /\ dec.nonce = vec.nonce

\* d differs from c in exactly one bit
IsBitFlipOf(d, c) ==
  /\ Len(d) = Len(c)
  /\ \E i \in 1..Len(c) :
       /\ \A j \in 1..Len(c) : j # i => d[j] = c[j]
       /\ BitXor(d[i], c[i]) \in {Pow2(b) : b \in 0..7}

\* d is a proper prefix of c
IsTruncationOf(d, c) == Len(d) < Len(c) /\ d = Take(c, Len(d))

\* the loader always passes null as associated data
SameAssociatedData == dec.side = "server" \/ vec.additionalData = <<>>

\* C1: decrypting what encryptSegment returned for plaintext P under a
\* 32-byte key K and a 12-byte nonce N, with the same K, N and associated
\* data, returns exactly P, on the server and in the loader.
C1_RoundTrip ==
  (dec.called /\ dec.ciphertext = enc.out.val /\ SameKeyAndNonce /\ SameAssociatedData)
    => dec.out = Returned(vec.plaintext)

\* a non-empty plaintext came back from the loader, whose nonce text had
\* to be decoded by the atob fallback
C1_Witness ==
  /\ dec.called /\ dec.side = "loader"
  /\ dec.ciphertext = enc.out.val /\ SameKeyAndNonce
  /\ ~SodiumFromBase64(BufferToBase64(dec.nonce)).ok
  /\ dec.out.ok /\ dec.out.val = vec.plaintext /\ Len(vec.plaintext) > 0

\* C2: a ciphertext that differs in one bit from the one encryptSegment
\* returned is never decrypted under the same key and nonce: the call
\* fails with the integrity error and returns no plaintext.
C2_TamperDetected ==
  (dec.called /\ SameKeyAndNonce /\ IsBitFlipOf(dec.ciphertext, enc.out.val))
    => (~dec.out.ok /\ IsIntegrityError(dec.out.err))

\* a bit of the body (not of the tag) of a non-empty segment was flipped
C2_Witness ==
  /\ dec.called /\ SameKeyAndNonce /\ SameAssociatedData
  /\ Len(vec.plaintext) > 0
  /\ IsBitFlipOf(dec.ciphertext, enc.out.val)
  /\ dec.ciphertext[1] # enc.out.val[1]
  /\ ~dec.out.ok

\* C3: decrypt with a (well-formed) key or nonce other than the pair used
\* to encrypt, or of a truncated ciphertext, even one shorter than the
\* tag, fails with the integrity error and returns nothing.
WellFormedKeyMaterial == Len(dec.key) = KEYBYTES /\ Len(dec.nonce) = NPUBBYTES

C3_WrongKeyOrTruncatedIsIntegrityError ==
  (dec.called /\ WellFormedKeyMaterial
     /\ (~SameKeyAndNonce \/ IsTruncationOf(dec.ciphertext, enc.out.val)))
    => (~dec.out.ok /\ IsIntegrityError(dec.out.err))

====
